---------------------------- MODULE Spec2Model ----------------------------
(***************************************************************************)
(* A model of the EQVST equaliser plug-in (Source/PluginProcessor.h,       *)
(* Source/PluginProcessor.cpp, Source/PluginEditor.cpp).                   *)
(*                                                                         *)
(* These specifications share the variables below:                         *)
(*   SpecCut       one CutFilter chain driven by updateCutFilter calls     *)
(*   SpecFifo      one Fifo<T> driven by whole push / pull calls           *)
(*   SpecFifoSPSC  the same Fifo with one producer thread and one consumer *)
(*                 thread, each call split at its shared-memory accesses   *)
(*   Spec          the processor: the audio thread running processBlock,   *)
(*                 the message thread running setStateInformation, the     *)
(*                 host writing parameters and calling prepareToPlay       *)
(*   SpecSample    one SingleChannelSampleFifo: prepare, update with a     *)
(*                 block of samples, getAudioBuffer                        *)
(*   SpecSerial    prepareToPlay and whole processBlock calls with the     *)
(*                 filter history of the two chains                        *)
(*   SpecRepeat    one CutFilter chain and one peak Filter updated,        *)
(*                 updated again and processed                             *)
(*   SpecEditor    the editor's ResponseCurveComponent (constructor,       *)
(*                 parameterValueChanged, timerCallback, paint) beside     *)
(*                 prepareToPlay, processBlock and parameter writes        *)
(*   SpecDrain     PathProducer::process draining a fed sample fifo into   *)
(*                 the spectrum window                                     *)
(*   SpecNotify    parameter writes with their listener calls beside the   *)
(*                 editor's timer                                          *)
(*   SpecLayout    bus layouts, processBlock on buffers of the layout and  *)
(*                 the channel fifos' taps                                 *)
(*   SpecDesign    the cut designs and the coefficient sets read from them *)
(*   SpecReprepare a sample fifo prepared again, with block sizes from 0   *)
(*   SpecInstall   updateFilters on its own, with the filter history       *)
(***************************************************************************)
EXTENDS Integers, Sequences, FiniteSets, TLC

\* ------------------------------------------------------------------------
\* Program constants and model bounds
\* ------------------------------------------------------------------------

\* PluginProcessor.h:72  static constexpr int Capacity = 30;
Capacity == 30

\* Number of Fifo::push calls made in one behaviour (more than Capacity, so
\* the ring wraps and the full case is met).
MaxPushes == 33

\* ------------------------------------------------------------------------
\* Fifo<T> (PluginProcessor.h:14-75) over juce::AbstractFifo
\* ------------------------------------------------------------------------

\* An item of type T is copied in two parts, so that a copy can be observed
\* half done.  An item pushed by the model carries the number of the push
\* call that offered it; a default-constructed T is EmptyItem.
Item(id) == [lo |-> id, hi |-> id]
EmptyItem == Item(0)

\* Fifo<T> as constructed: Capacity default items, AbstractFifo{Capacity}
\* with validStart = validEnd = 0.
NewFifo ==
    [buffers    |-> [k \in 0..(Capacity - 1) |-> EmptyItem],
     validStart |-> 0,
     validEnd   |-> 0]

Min(a, b) == IF a <= b THEN a ELSE b

\* juce::AbstractFifo::getNumReady
GetNumReady(vs, ve) == IF ve >= vs THEN ve - vs ELSE Capacity - (vs - ve)

\* juce::AbstractFifo::prepareToWrite, as called by fifo.write(1): one slot
\* is always left unused, so that validStart = validEnd means "empty".
PrepareToWrite(vs, ve, numToWrite) ==
    LET freeSpace == IF ve >= vs THEN Capacity - (ve - vs) ELSE vs - ve
        n         == Min(numToWrite, freeSpace - 1)
    IN  IF n <= 0
        THEN [startIndex1 |-> 0, blockSize1 |-> 0, blockSize2 |-> 0]
        ELSE [startIndex1 |-> ve,
              blockSize1  |-> Min(Capacity - ve, n),
              blockSize2  |-> IF n - Min(Capacity - ve, n) <= 0
                              THEN 0 ELSE Min(n - Min(Capacity - ve, n), vs)]

\* juce::AbstractFifo::prepareToRead, as called by fifo.read(1)
PrepareToRead(vs, ve, numWanted) ==
    LET n == Min(numWanted, GetNumReady(vs, ve))
    IN  IF n <= 0
        THEN [startIndex1 |-> 0, blockSize1 |-> 0, blockSize2 |-> 0]
        ELSE [startIndex1 |-> vs,
              blockSize1  |-> Min(Capacity - vs, n),
              blockSize2  |-> IF n - Min(Capacity - vs, n) <= 0
                              THEN 0 ELSE Min(n - Min(Capacity - vs, n), ve)]

\* juce::AbstractFifo::finishedWrite / finishedRead: advance a cursor,
\* wrapping at the buffer size.
Advance(cursor, n) ==
    IF cursor + n >= Capacity THEN cursor + n - Capacity ELSE cursor + n

\* Fifo::getNumAvailableForReading
getNumAvailableForReading(f) == GetNumReady(f.validStart, f.validEnd)

\* A variant of push that ignores blockSize1 and writes at validEnd anyway.
pushOverwrites(f, t) ==
    [fifo |-> [f EXCEPT !.buffers[f.validEnd] = t,
                        !.validEnd = Advance(f.validEnd, 1)],
     ok   |-> TRUE]

\* Fifo::push(t): the whole call.  The ScopedWrite returned by fifo.write(1)
\* calls finishedWrite(blockSize1 + blockSize2) when it goes out of scope.
push(f, t) ==
    LET write == PrepareToWrite(f.validStart, f.validEnd, 1)
    IN  IF write.blockSize1 > 0
        THEN [fifo |-> [f EXCEPT !.buffers[write.startIndex1] = t,
                                 !.validEnd = Advance(f.validEnd,
                                       write.blockSize1 + write.blockSize2)],
              ok   |-> TRUE]
        ELSE [fifo |-> f, ok |-> FALSE]

\* A variant of pull that copies a slot out even when nothing is ready.
pullAlwaysCopies(f, t) ==
    LET read == PrepareToRead(f.validStart, f.validEnd, 1)
    IN  IF read.blockSize1 > 0
        THEN [fifo |-> [f EXCEPT !.validStart = Advance(f.validStart,
                                       read.blockSize1 + read.blockSize2)],
              t    |-> f.buffers[read.startIndex1],
              ok   |-> TRUE]
        ELSE [fifo |-> f, t |-> f.buffers[f.validStart], ok |-> FALSE]

\* Fifo::pull(t): the whole call; t is the caller's output argument.
pull(f, t) ==
    LET read == PrepareToRead(f.validStart, f.validEnd, 1)
    IN  IF read.blockSize1 > 0
        THEN [fifo |-> [f EXCEPT !.validStart = Advance(f.validStart,
                                       read.blockSize1 + read.blockSize2)],
              t    |-> f.buffers[read.startIndex1],
              ok   |-> TRUE]
        ELSE [fifo |-> f, t |-> t, ok |-> FALSE]

\* ------------------------------------------------------------------------
\* Filter stages and cut chains (PluginProcessor.h:152-248)
\* ------------------------------------------------------------------------

\* enum Slope { Slope_12, Slope_24, Slope_36, Slope_48 }
Slopes == 0..3

\* The stages of a CutFilter = ProcessorChain<Filter, Filter, Filter, Filter>
Stages == 0..3

\* The values of one IIR coefficient set, named by the design call that
\* computed them: the design function, its arguments, and the position of
\* the set in the array the call returned.
Token(fn, freq, rate, order, idx, q, gain) ==
    [fn |-> fn, freq |-> freq, rate |-> rate, order |-> order, idx |-> idx,
     q |-> q, gain |-> gain]

\* juce::dsp::IIR::Filter's default coefficients (a pass-through section).
DefaultToken == Token("default", 0, 0, 0, 0, 0, 0)

\* juce::dsp::FilterDesign::designIIR{Highpass,Lowpass}HighOrderButterworthMethod:
\* an array of order / 2 second-order sections, indexed from 0.
DesignCut(fn, freq, rate, order) ==
    [i \in 0..((order \div 2) - 1) |-> Token(fn, freq, rate, order, i, 0, 0)]

\* The call that wrote a value: the constructor ("init"), a bare
\* updateCutFilter call ("call"), prepareToPlay ("prepare"),
\* setStateInformation ("state"), the n-th processBlock ("block"), a bare
\* updateFilters call ("update") or the editor's updateChain ("editor").
Origin(by, n) == [by |-> by, n |-> n]

\* A coefficient set is stored, and copied, in two parts; each part records
\* the values it holds and the call that wrote it.
Half(v, src) == [v |-> v, src |-> src]

\* A Filter inside a ProcessorChain: its coefficients and the chain's
\* bypassed flag for it.  As constructed: default coefficients, not bypassed.
NewStage == [lo |-> Half(DefaultToken, Origin("init", 0)),
             hi |-> Half(DefaultToken, Origin("init", 0)),
             byp |-> FALSE]

NewCutFilter == [i \in Stages |-> NewStage]

\* The values a stage's coefficient set holds, whoever wrote them.
CoefOf(st) == <<st.lo.v, st.hi.v>>

\* updateFilter<Index>(chain, coefficients): updateCoefficients copies
\* coefficients[Index] over the stage's set (*old = *replacements, a copy of
\* the values in two parts), then setBypassed<Index>(false).
UpdateFilterOps(index, coefficients) ==
    <<[kind |-> "lo", stage |-> index, val |-> coefficients[index]],
      [kind |-> "hi", stage |-> index, val |-> coefficients[index]],
      [kind |-> "byp", stage |-> index, val |-> FALSE]>>

BypassAllOps ==
    <<[kind |-> "byp", stage |-> 0, val |-> TRUE],
      [kind |-> "byp", stage |-> 1, val |-> TRUE],
      [kind |-> "byp", stage |-> 2, val |-> TRUE],
      [kind |-> "byp", stage |-> 3, val |-> TRUE]>>

\* A variant of updateCutFilter that does not bypass the four stages first.
CutFilterOpsNoBypass(coefficients, slope) ==
       (IF slope >= 0 THEN UpdateFilterOps(0, coefficients) ELSE <<>>)
    \o (IF slope >= 1 THEN UpdateFilterOps(1, coefficients) ELSE <<>>)
    \o (IF slope >= 2 THEN UpdateFilterOps(2, coefficients) ELSE <<>>)
    \o (IF slope >= 3 THEN UpdateFilterOps(3, coefficients) ELSE <<>>)

\* updateCutFilter(filter, coefficients, slope): the writes it makes to the
\* chain, in program order.
CutFilterOps(coefficients, slope) ==
       BypassAllOps
    \o (IF slope >= 0 THEN UpdateFilterOps(0, coefficients) ELSE <<>>)
    \o (IF slope >= 1 THEN UpdateFilterOps(1, coefficients) ELSE <<>>)
    \o (IF slope >= 2 THEN UpdateFilterOps(2, coefficients) ELSE <<>>)
    \o (IF slope >= 3 THEN UpdateFilterOps(3, coefficients) ELSE <<>>)

\* A variant of ApplyOp in which a write to a bypass flag inverts the flag.
ApplyOpToggle(filter, op, src) ==
    CASE op.kind = "lo"  -> [filter EXCEPT ![op.stage].lo = Half(op.val, src)]
      [] op.kind = "hi"  -> [filter EXCEPT ![op.stage].hi = Half(op.val, src)]
      [] op.kind = "byp" -> [filter EXCEPT ![op.stage].byp = ~@]

\* One write to a chain of stages, made by the call src.
ApplyOp(filter, op, src) ==
    CASE op.kind = "lo"  -> [filter EXCEPT ![op.stage].lo = Half(op.val, src)]
      [] op.kind = "hi"  -> [filter EXCEPT ![op.stage].hi = Half(op.val, src)]
      [] op.kind = "byp" -> [filter EXCEPT ![op.stage].byp = op.val]

RECURSIVE ApplyOps(_, _, _)
ApplyOps(filter, ops, src) ==
    IF ops = <<>> THEN filter
    ELSE ApplyOps(ApplyOp(filter, Head(ops), src), Tail(ops), src)

\* updateCutFilter(filter, coefficients, slope): the whole call.
updateCutFilter(filter, coefficients, slope) ==
    ApplyOps(filter, CutFilterOps(coefficients, slope), Origin("call", 0))

\* ------------------------------------------------------------------------
\* The processor: parameters, chains, updateFilters
\* (PluginProcessor.cpp:94-110, 144-171, 195-283)
\* ------------------------------------------------------------------------

\* Number of processBlock calls, of setStateInformation calls, of parameter
\* writes by the host and of prepareToPlay calls in one behaviour.
MaxBlocks == 2
MaxRestores == 1
MaxParamWrites == 1
MaxPrepares == 1

\* Number of times a thread is switched away from in the middle of a call.
MaxPreemptions == 2

Chans == {"left", "right"}
CutPositions == {"LowCut", "HighCut"}

\* The fields of ChainSettings in the order getChainSettings loads them.
Fields == <<"peakFreq", "peakGainDB", "peakQ", "lowCutFreq", "lowCutSlope",
            "highCutFreq", "highCutSlope">>

\* ChainSettings as default-constructed (PluginProcessor.h:161-176).
NewChainSettings ==
    [peakFreq |-> 0, peakGainDB |-> 0, peakQ |-> 1, lowCutFreq |-> 0,
     lowCutSlope |-> 0, highCutFreq |-> 0, highCutSlope |-> 0]

\* The parameters' default values (createParameterLayout).
DefaultParameters ==
    [peakFreq |-> 750, peakGainDB |-> 0, peakQ |-> 1, lowCutFreq |-> 20,
     lowCutSlope |-> 0, highCutFreq |-> 20000, highCutSlope |-> 0]

\* The values the host writes to a parameter, all inside the declared
\* ranges; the parameters not listed are written by setStateInformation only.
ParameterValues(field) ==
    IF field = "lowCutSlope" THEN {0, 1} ELSE {}

\* A state handed to setStateInformation: data that does not parse to a
\* valid tree, or a stored set of parameter values.
InvalidTree == [valid |-> FALSE, state |-> DefaultParameters]
StoredTree ==
    [valid |-> TRUE,
     state |-> [peakFreq |-> 20000, peakGainDB |-> 6, peakQ |-> 1,
                lowCutFreq |-> 20000, lowCutSlope |-> 1,
                highCutFreq |-> 20, highCutSlope |-> 0]]
Trees == {InvalidTree, StoredTree}

\* Sample rates the host prepares the processor with.
SampleRates == {32000, 48000}

\* A MonoChain = ProcessorChain<CutFilter, Filter, CutFilter> as constructed.
NewMonoChain ==
    [LowCut |-> NewCutFilter, Peak |-> [i \in {0} |-> NewStage],
     HighCut |-> NewCutFilter]

\* makePeakFilter: juce::dsp::IIR::Coefficients<float>::makePeakFilter
\* (sampleRate, peakFreq, peakQ, decibelsToGain(peakGainDB)).
makePeakFilter(chainSettings, rate) ==
    Token("peak", chainSettings.peakFreq, rate, 2, 0,
          chainSettings.peakQ, chainSettings.peakGainDB)

\* A variant of the low cut design that asks for the order 2 * slope.
makeLowCutFilterOrderShort(chainSettings, rate) ==
    DesignCut("HP", chainSettings.lowCutFreq, rate, chainSettings.lowCutSlope * 2)

\* The low cut design of updateLowCutFilters / makeLowCutFilter.
makeLowCutFilter(chainSettings, rate) ==
    DesignCut("HP", chainSettings.lowCutFreq, rate,
              (chainSettings.lowCutSlope + 1) * 2)

\* The high cut design of updateHighCutFilters / makeHighCutFilter.
makeHighCutFilter(chainSettings, rate) ==
    DesignCut("LP", chainSettings.highCutFreq, rate,
              (chainSettings.highCutSlope + 1) * 2)

\* The writes of ops, made to the stages of chain chan at position pos.
RECURSIVE At(_, _, _)
At(chan, pos, ops) ==
    IF ops = <<>> THEN <<>>
    ELSE <<[kind |-> Head(ops).kind, chan |-> chan, pos |-> pos,
            stage |-> Head(ops).stage, val |-> Head(ops).val]>>
         \o At(chan, pos, Tail(ops))

\* updateLowCutFilters(chainSettings)
LowCutOps(chainSettings, rate) ==
    LET lowCutCoefficients == makeLowCutFilter(chainSettings, rate)
    IN     At("left", "LowCut",
           CutFilterOps(lowCutCoefficients, chainSettings.lowCutSlope))
        \o At("right", "LowCut",
           CutFilterOps(lowCutCoefficients, chainSettings.lowCutSlope))

\* updateHighCutFilters(chainSettings)
HighCutOps(chainSettings, rate) ==
    LET highCutCoefficients == makeHighCutFilter(chainSettings, rate)
    IN     At("left", "HighCut",
           CutFilterOps(highCutCoefficients, chainSettings.highCutSlope))
        \o At("right", "HighCut",
           CutFilterOps(highCutCoefficients, chainSettings.highCutSlope))

\* updatePeakFilter(chainSettings): two updateCoefficients calls.
PeakOps(chainSettings, rate) ==
    LET peakCoefficients == makePeakFilter(chainSettings, rate)
        copy == <<[kind |-> "lo", stage |-> 0, val |-> peakCoefficients],
                  [kind |-> "hi", stage |-> 0, val |-> peakCoefficients]>>
    IN     At("left", "Peak", copy)
        \o At("right", "Peak", copy)

\* updateFilters() after its getChainSettings: the writes to leftChain and
\* rightChain, in program order, of the coefficients designed for the
\* snapshot and the sample rate.
UpdateFiltersOps(chainSettings, rate) ==
       LowCutOps(chainSettings, rate)
    \o HighCutOps(chainSettings, rate)
    \o PeakOps(chainSettings, rate)

\* One step of updateFilters on the two chains.
ApplyChainOp(ch, op, src) ==
    [ch EXCEPT ![op.chan][op.pos] = ApplyOp(@, op, src)]

RECURSIVE ApplyChainOps(_, _, _)
ApplyChainOps(ch, ops, src) ==
    IF ops = <<>> THEN ch
    ELSE ApplyChainOps(ApplyChainOp(ch, Head(ops), src), Tail(ops), src)

\* The stages a MonoChain runs a sample through: those not bypassed.
EnabledStages(mono) ==
    {st \in {mono[pos][i] : pos \in CutPositions, i \in Stages} \cup {mono.Peak[0]} :
        ~st.byp}

VARIABLES
    fifo,        \* the Fifo<T> object: buffers, validStart, validEnd
    out,         \* the consumer's output argument of pull
    offered,     \* number of push calls made so far
    accepted,    \* the items whose push returned true, in call order
    delivered,   \* the items whose pull returned true, as copied out, in call order
    lastOp,      \* the last completed Fifo call and what it did
    prod,        \* producer thread: position in push and its locals
    cons,        \* consumer thread: position in pull and its locals
    cutChain,    \* a CutFilter chain on its own
    lastCut,     \* the arguments of the last updateCutFilter call on cutChain
    apvts,       \* the parameters' current values
    sampleRate,  \* AudioProcessor::getSampleRate()
    chains,      \* leftChain and rightChain
    thread,      \* the audio and the message thread: position and locals
    blocks,      \* number of processBlock calls started
    restores,    \* number of setStateInformation calls started
    paramWrites, \* number of parameter writes by the host
    prepares,    \* number of prepareToPlay calls
    filtered,    \* the stages the last chain.process ran the block through
    last,        \* the thread that took the last step
    preemptions  \* number of switches away from a thread inside a call

fifoVars == <<fifo, out, offered, accepted, delivered, lastOp, prod, cons>>
cutVars == <<cutChain, lastCut>>

procVars == <<apvts, sampleRate, chains, thread, blocks, restores, paramWrites,
              prepares,
              filtered, last, preemptions>>

\* ------------------------------------------------------------------------
\* SingleChannelSampleFifo<BlockType> (PluginProcessor.h:83-150)
\* ------------------------------------------------------------------------

\* Number of samples fed to a SingleChannelSampleFifo in one behaviour, the
\* largest buffer handed to one update call and the largest block size it
\* is prepared with.
MaxSamples == 34
MaxUpdateSamples == 2
MaxBlockSize == 2

\* An AudioBuffer of n cleared samples; the samples fed by the model are
\* numbered from 1 in arrival order.
ZeroBlock(n) == [i \in 1..n |-> 0]

\* SingleChannelSampleFifo as constructed: fifoIndex 0, a Fifo of empty
\* buffers, an empty bufferToFill, prepared false, size 0.
NewSampleFifo ==
    [fifoIndex       |-> 0,
     audioBufferFifo |-> [NewFifo EXCEPT !.buffers = [k \in 0..(Capacity - 1) |-> <<>>]],
     bufferToFill    |-> <<>>,
     prepared        |-> FALSE,
     size            |-> 0]

\* Fifo::prepare(numChannels, numSamples): every buffer is resized and
\* cleared; the cursors of the AbstractFifo are not touched.
FifoPrepare(f, numSamples) ==
    [f EXCEPT !.buffers = [k \in 0..(Capacity - 1) |-> ZeroBlock(numSamples)]]

\* SingleChannelSampleFifo::prepare(bufferSize)
prepare(s, bufferSize) ==
    [s EXCEPT !.size = bufferSize,
              !.bufferToFill = ZeroBlock(bufferSize),
              !.audioBufferFifo = FifoPrepare(@, bufferSize),
              !.fifoIndex = 0,
              !.prepared = TRUE]

\* What a pushNextSampleIntoFifo call did with the queue: nothing, or the
\* push of bufferToFill it made, its result and whether the Fifo object was
\* left as it was.
NoAttempt == [made |-> FALSE, ok |-> FALSE, block |-> <<>>, kept |-> TRUE]

\* A variant of pushNextSampleIntoFifo that writes the block into the queue
\* even when the queue is full.
pushNextSampleOverwriting(s, sample) ==
    LET full == s.fifoIndex = Len(s.bufferToFill)
        r    == pushOverwrites(s.audioBufferFifo, s.bufferToFill)
        s1   == IF full THEN [s EXCEPT !.audioBufferFifo = r.fifo, !.fifoIndex = 0]
                ELSE s
    IN  [s |-> [s1 EXCEPT !.bufferToFill[s1.fifoIndex + 1] = sample,
                          !.fifoIndex = s1.fifoIndex + 1],
         attempt |-> IF full
                     THEN [made |-> TRUE, ok |-> PrepareToWrite(
                               s.audioBufferFifo.validStart,
                               s.audioBufferFifo.validEnd, 1).blockSize1 > 0,
                           block |-> s.bufferToFill,
                           kept |-> r.fifo = s.audioBufferFifo]
                     ELSE NoAttempt]

\* SingleChannelSampleFifo::pushNextSampleIntoFifo(sample): if bufferToFill
\* is full it is pushed (the result is ignored) and fifoIndex restarts at 0;
\* then the sample is stored at fifoIndex, which is incremented.
pushNextSampleIntoFifo(s, sample) ==
    LET full == s.fifoIndex = Len(s.bufferToFill)
        r    == push(s.audioBufferFifo, s.bufferToFill)
        s1   == IF full THEN [s EXCEPT !.audioBufferFifo = r.fifo, !.fifoIndex = 0]
                ELSE s
    IN  [s |-> [s1 EXCEPT !.bufferToFill[s1.fifoIndex + 1] = sample,
                          !.fifoIndex = s1.fifoIndex + 1],
         attempt |-> IF full
                     THEN [made |-> TRUE, ok |-> r.ok, block |-> s.bufferToFill,
                           kept |-> r.fifo = s.audioBufferFifo]
                     ELSE NoAttempt]

\* SingleChannelSampleFifo::update(buffer): pushNextSampleIntoFifo for every
\* sample of the buffer in order.  st carries the object and the record of
\* the pushes made so far: each with the number of samples that had arrived
\* before the sample that caused it.
RECURSIVE update(_, _)
update(st, samples) ==
    IF samples = <<>> THEN st
    ELSE LET r == pushNextSampleIntoFifo(st.s, Head(samples))
         IN  update([s   |-> r.s,
                     fed |-> st.fed + 1,
                     log |-> IF r.attempt.made
                             THEN Append(st.log,
                                    [at |-> st.fed, ok |-> r.attempt.ok,
                                     block |-> r.attempt.block,
                                     kept |-> r.attempt.kept,
                                     restart |-> r.s.fifoIndex])
                             ELSE st.log],
                    Tail(samples))

\* A variant of getAudioBuffer that takes two blocks and hands out the
\* second.
getAudioBufferSkipping(sf, buf) ==
    LET r1 == pull(sf.audioBufferFifo, buf)
        r2 == pull(r1.fifo, r1.t)
    IN  [s |-> [sf EXCEPT !.audioBufferFifo = r2.fifo], buf |-> r2.t, ok |-> r1.ok]

\* SingleChannelSampleFifo::getAudioBuffer(buf)
getAudioBuffer(s, buf) ==
    LET r == pull(s.audioBufferFifo, buf)
    IN  [s |-> [s EXCEPT !.audioBufferFifo = r.fifo], buf |-> r.t, ok |-> r.ok]

VARIABLES
    sampleFifo,  \* a SingleChannelSampleFifo on its own
    fed,         \* number of samples handed to its update calls
    pushLog,     \* the pushes of completed blocks it made, in order
    drained      \* the blocks getAudioBuffer returned, in order

sampleVars == <<sampleFifo, fed, pushLog, drained>>

SampleInit ==
    /\ sampleFifo = NewSampleFifo
    /\ fed = 0
    /\ pushLog = <<>>
    /\ drained = <<>>

\* ------------------------------------------------------------------------
\* Filter history and the processing of a block
\* (juce::dsp::ProcessorChain / IIR::Filter as used by PluginProcessor.cpp)
\* ------------------------------------------------------------------------

\* Number of prepareToPlay and processBlock calls in one behaviour of the
\* processor taken call by call.
MaxCalls == 4

\* A signal is all zero (0) or not (1); a stage's history (its past inputs
\* and outputs) likewise: the history of a chain is the set of its stages
\* whose history is not all zero.
Signals == {0, 1}

\* The stages of a MonoChain in processing order.
ChainOrder ==
    <<<<"LowCut", 0>>, <<"LowCut", 1>>, <<"LowCut", 2>>, <<"LowCut", 3>>,
      <<"Peak", 0>>,
      <<"HighCut", 0>>, <<"HighCut", 1>>, <<"HighCut", 2>>, <<"HighCut", 3>>>>

\* A variant of chain.prepare that leaves the filters' history alone.
prepareKeepsHistory(h) == h

\* MonoChain::prepare(spec): every IIR::Filter of the chain is prepared,
\* which resets its history to zero.
prepareHistory(h) == {}

\* MonoChain::process(context) from stage k on: a bypassed stage passes the
\* signal on; an enabled stage turns a zero signal and a zero history into a
\* zero signal, and anything else into a signal and a history that are not
\* zero.
RECURSIVE processFrom(_, _, _, _)
processFrom(mono, h, signal, k) ==
    IF k > Len(ChainOrder) THEN [out |-> signal, history |-> h]
    ELSE LET at == ChainOrder[k]
             st == mono[at[1]][at[2]]
             y  == IF signal = 1 \/ at \in h THEN 1 ELSE 0
         IN  IF st.byp THEN processFrom(mono, h, signal, k + 1)
             ELSE processFrom(mono, IF y = 1 THEN h \cup {at} ELSE h, y, k + 1)

\* A variant of chain.process whose output is never all zero.
processWithOffset(mono, h, signal) ==
    [out |-> 1, history |-> processFrom(mono, h, signal, 1).history]

\* chain.process(context) on a block.
process(mono, h, signal) == processFrom(mono, h, signal, 1)

\* A prepareToPlay or processBlock call, as completed.
NoCall ==
    [kind |-> "none", n |-> 0,
     before |-> [c \in Chans |-> {}],
     input  |-> [c \in Chans |-> 0],
     output |-> [c \in Chans |-> 0]]

VARIABLES
    history,      \* the filter history of leftChain and rightChain
    channelFifos, \* leftChannelFifo and rightChannelFifo
    calls,        \* number of prepareToPlay and processBlock calls made
    lastCall      \* the last such call: its kind, input, output

serialVars == <<history, channelFifos, calls, lastCall>>

SerialInit ==
    /\ history = [c \in Chans |-> {}]
    /\ channelFifos = [c \in Chans |-> NewSampleFifo]
    /\ calls = 0
    /\ lastCall = NoCall

\* updateCoefficients(old, replacements) on one Filter: *old = *replacements,
\* the copy in two parts.
updateCoefficients(st, replacements, src) ==
    [st EXCEPT !.lo = Half(replacements, src), !.hi = Half(replacements, src)]

\* Peak gains the peak designs of SpecCut are asked for.
PeakGains == {0, 6}

VARIABLES
    cutHistory,  \* the stages of cutChain whose history is not all zero
    peakStage,   \* a peak Filter on its own
    peakHistory, \* whether its history is not all zero
    cutRepeat    \* the last step was an update with the arguments of the
                 \* update before it

cutMoreVars == <<cutHistory, peakStage, peakHistory, cutRepeat>>

CutMoreInit ==
    /\ cutHistory = {}
    /\ peakStage = NewStage
    /\ peakHistory = FALSE
    /\ cutRepeat = FALSE

\* ------------------------------------------------------------------------
\* The editor's response curve (PluginProcessor.cpp:519-530, 731-807;
\* PluginEditor.cpp:103-125)
\* ------------------------------------------------------------------------

\* A variant of compareAndSetBool that stores the new value and reports
\* that the value did not match.
compareAndSetUnreported(value, newValue, valueToCompare) ==
    [value |-> newValue, ok |-> FALSE]

\* A variant of compareAndSetBool that reports the match without storing.
compareWithoutSet(value, newValue, valueToCompare) ==
    [value |-> value, ok |-> value = valueToCompare]

\* juce::Atomic<bool>::compareAndSetBool(newValue, valueToCompare): in one
\* atomic step, if the value equals valueToCompare it becomes newValue and
\* the call returns true; otherwise nothing changes and it returns false.
compareAndSetBool(value, newValue, valueToCompare) ==
    IF value = valueToCompare THEN [value |-> newValue, ok |-> TRUE]
    ELSE [value |-> value, ok |-> FALSE]

\* ResponseCurveComponent::updateChain: the peak coefficients, then the low
\* cut and the high cut, designed from the current parameters and written
\* to the editor's monoChain.
updateChain(mono, chainSettings, rate) ==
    LET src == Origin("editor", 0)
    IN  [Peak    |-> [mono.Peak EXCEPT ![0] =
                        updateCoefficients(@, makePeakFilter(chainSettings, rate), src)],
         LowCut  |-> ApplyOps(mono.LowCut,
                        CutFilterOps(makeLowCutFilter(chainSettings, rate),
                                     chainSettings.lowCutSlope), src),
         HighCut |-> ApplyOps(mono.HighCut,
                        CutFilterOps(makeHighCutFilter(chainSettings, rate),
                                     chainSettings.highCutSlope), src)]

\* A variant of the editor's update that writes the processor's leftChain.
EditorWritesProcessor(mono, ch, chainSettings, rate) ==
    [monoChain |-> mono,
     chains    |-> [ch EXCEPT !["left"] = updateChain(@, chainSettings, rate)]]

\* What an updateChain call of the editor leaves in the editor's monoChain
\* and in the processor's chains.
EditorWrites(mono, ch, chainSettings, rate) ==
    [monoChain |-> updateChain(mono, chainSettings, rate), chains |-> ch]

\* PathProducer::process, its first loop: while the channel fifo has
\* complete buffers, getAudioBuffer takes one.
RECURSIVE DrainAll(_)
DrainAll(sf) ==
    IF getNumAvailableForReading(sf.audioBufferFifo) > 0
    THEN DrainAll(getAudioBuffer(sf, <<>>).s)
    ELSE sf

\* ResponseCurveComponent::paint: the curve is the product, at each
\* frequency, of the magnitudes of the monoChain stages that are not
\* bypassed, taken at the processor's sample rate.
magnitudes(mono, rate) ==
    [rate    |-> rate,
     factors |-> {f \in {<<pos, i, CoefOf(mono[pos][i])>> :
                            pos \in CutPositions, i \in Stages}
                        \cup {<<"Peak", 0, CoefOf(mono.Peak[0])>>} :
                    ~mono[f[1]][f[2]].byp}]

\* A timerCallback: whether a parameter change had been signalled since the
\* check of the tick before, whether its check found the flag set, and
\* whether it recomputed the display chain.
NoTick == [any |-> FALSE, signalled |-> FALSE, taken |-> FALSE, recomputed |-> FALSE]

VARIABLES
    editorOpen,        \* a ResponseCurveComponent exists
    monoChain,         \* its display chain
    parametersChanged, \* its juce::Atomic<bool>
    signalled,         \* parameterValueChanged ran since the last check
    timer,             \* timerCallback's position
    tick,              \* the last timerCallback
    responseCurve      \* what paint drew last

editorVars ==
    <<editorOpen, monoChain, parametersChanged, signalled, timer, tick,
      responseCurve>>

EditorInit ==
    /\ editorOpen = FALSE
    /\ monoChain = NewMonoChain
    /\ parametersChanged = FALSE
    /\ signalled = FALSE
    /\ timer = "idle"
    /\ tick = NoTick
    /\ responseCurve = [rate |-> 0, factors |-> {}]

\* ------------------------------------------------------------------------
\* PathProducer::process, the drain of the channel fifo into the spectrum
\* window (PluginProcessor.cpp:749-775)
\* ------------------------------------------------------------------------

\* Length of the spectrum window (monoBuffer) in samples.
WindowLength == 3

\* monoBuffer as allocated: WindowLength cleared samples.
NewWindow == ZeroBlock(WindowLength)

\* memcpy(dest, src, num) inside one buffer, copying from the first element
\* to the last: buf[dest + k] = buf[src + k] for k = 0 .. num - 1 (indices
\* from 1).
RECURSIVE CopyForward(_, _, _, _, _)
CopyForward(buf, dest, src, num, k) ==
    IF k >= num THEN buf
    ELSE CopyForward([buf EXCEPT ![dest + k] = buf[src + k]], dest, src, num, k + 1)

\* The same copy made from the last element to the first.
RECURSIVE CopyBackward(_, _, _, _)
CopyBackward(buf, dest, src, k) ==
    IF k < 0 THEN buf
    ELSE CopyBackward([buf EXCEPT ![dest + k] = buf[src + k]], dest, src, k - 1)

\* juce::FloatVectorOperations::copy(dest, src, num) with both pointers in
\* one buffer: a memcpy.  When the two ranges do not overlap there is one
\* result; when they overlap the behaviour is undefined and the result is
\* that of whichever direction the memcpy of the build copies in.
copy(buf, dest, src, num) ==
    IF num <= 0 \/ dest + num <= src \/ src + num <= dest
    THEN {CopyForward(buf, dest, src, num, 0)}
    ELSE {CopyForward(buf, dest, src, num, 0), CopyBackward(buf, dest, src, num - 1)}

\* The body of the drain loop for one pulled block: monoBuffer is shifted
\* down by the block's size (a copy inside monoBuffer), then the block is
\* copied to its end.  The set of windows the step can leave.
ShiftAppend(mono, temp) ==
    LET size == Len(temp)
        n    == Len(mono)
    IN  {[i \in 1..n |-> IF i <= n - size THEN shifted[i] ELSE temp[i - (n - size)]] :
            shifted \in copy(mono, 1, 1 + size, n - size)}

\* A drain cycle: its position, the number of blocks the queue had accepted
\* and the number it held when the cycle started, and the number of blocks
\* the cycle has pulled.
NoCycle == [pc |-> "idle", startAccepted |-> 0, startAvailable |-> 0, pulled |-> 0]

VARIABLES
    window,    \* monoBuffer
    cycle,     \* the PathProducer::process call in progress, or the last one
    appended,  \* the blocks appended to monoBuffer, in order
    lastShift  \* the window before the last shift-and-append, and the block

pathVars == <<window, cycle, appended, lastShift>>

PathInit ==
    /\ window = NewWindow
    /\ cycle = NoCycle
    /\ appended = <<>>
    /\ lastShift = [before |-> <<>>, block |-> <<>>]

\* ------------------------------------------------------------------------
\* A parameter write with its listener call
\* (juce::AudioProcessorParameter::setValueNotifyingHost: the value is
\* stored, then parameterValueChanged is called on every listener)
\* ------------------------------------------------------------------------

\* Number of notified parameter writes made in one behaviour.
MaxNotifiedWrites == 3

VARIABLES
    notify,   \* a value has been stored and its listener call is still to come
    notified  \* number of notified writes started

notifyVars == <<notify, notified>>

NotifyInit ==
    /\ notify = FALSE
    /\ notified = 0

\* ------------------------------------------------------------------------
\* Bus layouts and the channels of the processed buffer
\* (PluginProcessor.cpp:13-24, 119-141, 144-171; PluginProcessor.h:77-102,
\* 297-299)
\* ------------------------------------------------------------------------

\* Number of update calls made on the channel fifos in one behaviour.
MaxTaps == 2

\* Channel sets a host may propose for the main buses, with their sizes.
ChannelSets == {"disabled", "mono", "stereo", "LCR"}
SizeOf(set) ==
    CASE set = "disabled" -> 0 [] set = "mono" -> 1 [] set = "stereo" -> 2
      [] set = "LCR" -> 3

\* isBusesLayoutSupported(layouts): the main output is mono or stereo and
\* the main input is the same set.
isBusesLayoutSupported(input, output) ==
    IF output # "mono" /\ output # "stereo" THEN FALSE
    ELSE IF output # input THEN FALSE
    ELSE TRUE

\* enum Channel { Right, Left }
Channel == [Right |-> 0, Left |-> 1]

\* leftChannelFifo{ Channel::Left }, rightChannelFifo{ Channel::Right }:
\* the channelToUse of each fifo.
channelToUse == [left |-> Channel.Left, right |-> Channel.Right]

\* processBlock: leftChain processes block.getSingleChannelBlock(0),
\* rightChain processes block.getSingleChannelBlock(1).
ChainChannel == [left |-> 0, right |-> 1]

\* The samples the model puts in channel ch of a buffer (not zero, and
\* different for every channel), and what a read outside the buffer may
\* return.
Marker(ch) == ch + 1
Garbage == {0, 9}

\* A processBlock call as made: the buffer's channel count and the channel
\* indices it accessed.
NoBlock == [numChannels |-> 0, accessed |-> {}]

VARIABLES
    busLayout,  \* the main input and output channel sets in force
    lastBlock,  \* the last processBlock call
    taps        \* number of update calls made on the channel fifos

layoutVars == <<busLayout, lastBlock, taps>>

LayoutInit ==
    /\ busLayout = [input |-> "stereo", output |-> "stereo"]
    /\ lastBlock = NoBlock
    /\ taps = 0

\* ------------------------------------------------------------------------
\* The cut designs and the coefficient sets updateCutFilter reads
\* (PluginProcessor.h:203-248, PluginProcessor.cpp:246-274)
\* ------------------------------------------------------------------------

\* An array of four coefficient sets, to ask updateCutFilter which indices
\* it reads for a slope.
ProbeCoefficients == [i \in Stages |-> DefaultToken]

\* The indices i for which updateCutFilter(filter, coefficients, slope)
\* calls updateFilter<i>, which reads coefficients[i].
IndicesRead(slope) ==
    LET ops == CutFilterOps(ProbeCoefficients, slope)
    IN  {ops[k].stage : k \in {j \in 1..Len(ops) : ops[j].kind = "lo"}}

\* The settings the designs are made for.
DesignSettings ==
    {[DefaultParameters EXCEPT !.lowCutSlope = ls, !.highCutSlope = hs,
                               !.lowCutFreq = lf, !.highCutFreq = hf] :
        ls \in Slopes, hs \in Slopes, lf \in {20, 20000}, hf \in {20, 20000}}

\* No updateLowCutFilters / updateHighCutFilters call made yet.
NoDesign ==
    [made |-> FALSE, settings |-> NewChainSettings, low |-> <<>>, high |-> <<>>]

VARIABLES
    designed,  \* the last pair of cut designs and the settings they were made for
    designChain \* a MonoChain the designs are installed in

designVars == <<designed, designChain>>

DesignInit ==
    /\ designed = NoDesign
    /\ designChain = NewMonoChain

\* ------------------------------------------------------------------------
\* prepare called again on a SingleChannelSampleFifo, with any block size
\* (PluginProcessor.h:104-121)
\* ------------------------------------------------------------------------

\* Number of prepare calls and of samples fed in one behaviour in which
\* the fifo is prepared more than once.
MaxPrepareCalls == 2
MaxReprepareSamples == 6

VARIABLES
    prepareCalls  \* number of prepare calls made on sampleFifo

reprepareVars == <<prepareCalls>>

ReprepareInit == prepareCalls = 0

extraVars ==
    <<sampleVars, serialVars, cutMoreVars, editorVars, pathVars, notifyVars,
      layoutVars, designVars, reprepareVars>>

ExtraInit ==
    /\ SampleInit /\ SerialInit /\ CutMoreInit
    /\ EditorInit /\ PathInit /\ NotifyInit /\ LayoutInit /\ DesignInit
    /\ ReprepareInit

vars == <<fifoVars, cutVars, procVars, extraVars>>

NoOp == [op |-> "none", before |-> 0, ok |-> FALSE, kept |-> TRUE, outKept |-> TRUE]
IdleThread == [pc |-> 0, vs |-> 0, ve |-> 0, start |-> 0, size |-> 0, t |-> EmptyItem]

FifoInit ==
    /\ fifo = NewFifo
    /\ out = EmptyItem
    /\ offered = 0
    /\ accepted = <<>>
    /\ delivered = <<>>
    /\ lastOp = NoOp
    /\ prod = IdleThread
    /\ cons = IdleThread

NoCut == [coefficients |-> DesignCut("none", 0, 0, 8), slope |-> 0, calls |-> 0]

CutInit ==
    /\ cutChain = NewCutFilter
    /\ lastCut = NoCut

\* A thread outside any call.
IdleCall == [pc |-> "idle", i |-> 0, cs |-> NewChainSettings, reads |-> 0,
             ops |-> <<>>]

ProcInit ==
    /\ apvts = DefaultParameters
    /\ sampleRate = 0
    /\ chains = [c \in Chans |-> NewMonoChain]
    /\ thread = [t \in {"audio", "message"} |-> IdleCall]
    /\ blocks = 0
    /\ restores = 0
    /\ paramWrites = 0
    /\ prepares = 0
    /\ filtered = {}
    /\ last = "audio"
    /\ preemptions = 0

Init == FifoInit /\ CutInit /\ ProcInit /\ ExtraInit

\* ------------------------------------------------------------------------
\* SpecFifo: whole push and pull calls, one after another
\* ------------------------------------------------------------------------

\* A call of push with the next item.
Push ==
    /\ offered < MaxPushes
    /\ LET r == push(fifo, Item(offered + 1))
       IN  /\ fifo' = r.fifo
           /\ offered' = offered + 1
           /\ accepted' = IF r.ok THEN Append(accepted, Item(offered + 1)) ELSE accepted
           /\ lastOp' = [op      |-> "push",
                         before  |-> getNumAvailableForReading(fifo),
                         ok      |-> r.ok,
                         kept    |-> r.fifo = fifo,
                         outKept |-> TRUE]
    /\ UNCHANGED <<out, delivered, prod, cons, cutVars, procVars, extraVars>>

\* A call of pull into the output argument.
Pull ==
    /\ LET r == pull(fifo, out)
       IN  /\ fifo' = r.fifo
           /\ out' = r.t
           /\ delivered' = IF r.ok THEN Append(delivered, r.t) ELSE delivered
           /\ lastOp' = [op      |-> "pull",
                         before  |-> getNumAvailableForReading(fifo),
                         ok      |-> r.ok,
                         kept    |-> r.fifo = fifo,
                         outKept |-> r.t = out]
    /\ UNCHANGED <<offered, accepted, prod, cons, cutVars, procVars, extraVars>>

NextFifo == Push \/ Pull

SpecFifo == Init /\ [][NextFifo]_vars

\* ------------------------------------------------------------------------
\* SpecFifoSPSC: one thread in push, one thread in pull, interleaved at
\* every access to validStart, validEnd and the slot
\* ------------------------------------------------------------------------

\* A variant of the producer's order that publishes the slot before the
\* item has been copied into it.
PushProgramPublishFirst == <<"readStart", "readEnd", "finish", "copyLo", "copyHi">>

\* The shared-memory accesses of Fifo::push in program order: fifo.write(1)
\* loads validStart then validEnd, buffers[startIndex1] = t copies the item,
\* and the ScopedWrite's destructor stores validEnd.
PushProgram == <<"readStart", "readEnd", "copyLo", "copyHi", "finish">>

\* The shared-memory accesses of Fifo::pull in program order.
PullProgram == <<"readStart", "readEnd", "copyLo", "copyHi", "finish">>

IsCopy(step) == step \in {"copyLo", "copyHi"}

\* The step a thread is about to take ("idle" between calls).
StepOf(program, th) == IF th.pc = 0 THEN "idle" ELSE program[th.pc]

\* The position after pc: the copy is skipped when blockSize1 = 0.
NextPc(program, pc, size) ==
    LET later == {k \in (pc + 1)..Len(program) : size > 0 \/ ~IsCopy(program[k])}
    IN  IF later = {} THEN 0 ELSE CHOOSE k \in later : \A j \in later : k <= j

\* The producer enters push(t) with the next item.
ProducerCall ==
    /\ prod.pc = 0
    /\ offered < MaxPushes
    /\ offered' = offered + 1
    /\ prod' = [prod EXCEPT !.pc = 1, !.t = Item(offered + 1), !.size = 0]
    /\ UNCHANGED <<fifo, out, accepted, delivered, lastOp, cons, cutVars, procVars, extraVars>>

\* One step of the producer inside push.
ProducerStep ==
    /\ prod.pc > 0
    /\ LET step == StepOf(PushProgram, prod)
           write == PrepareToWrite(prod.vs, fifo.validEnd, 1)
           size == IF step = "readEnd" THEN write.blockSize1 ELSE prod.size
       IN  /\ prod' = [prod EXCEPT
                         !.pc = NextPc(PushProgram, prod.pc, size),
                         !.vs = IF step = "readStart" THEN fifo.validStart ELSE @,
                         !.ve = IF step = "readEnd" THEN fifo.validEnd ELSE @,
                         !.start = IF step = "readEnd" THEN write.startIndex1 ELSE @,
                         !.size = size]
           /\ fifo' = CASE step = "copyLo" ->
                             [fifo EXCEPT !.buffers[prod.start].lo = prod.t.lo]
                        [] step = "copyHi" ->
                             [fifo EXCEPT !.buffers[prod.start].hi = prod.t.hi]
                        [] step = "finish" ->
                             [fifo EXCEPT !.validEnd = Advance(@, prod.size)]
                        [] OTHER -> fifo
           /\ accepted' = IF step = "finish" /\ prod.size > 0
                          THEN Append(accepted, prod.t) ELSE accepted
    /\ UNCHANGED <<out, offered, delivered, lastOp, cons, cutVars, procVars, extraVars>>

\* The consumer enters pull(t).
ConsumerCall ==
    /\ cons.pc = 0
    /\ cons' = [cons EXCEPT !.pc = 1, !.size = 0]
    /\ UNCHANGED <<fifo, out, offered, accepted, delivered, lastOp, prod, cutVars, procVars, extraVars>>

\* One step of the consumer inside pull.
ConsumerStep ==
    /\ cons.pc > 0
    /\ LET step == StepOf(PullProgram, cons)
           read == PrepareToRead(cons.vs, fifo.validEnd, 1)
           size == IF step = "readEnd" THEN read.blockSize1 ELSE cons.size
       IN  /\ cons' = [cons EXCEPT
                         !.pc = NextPc(PullProgram, cons.pc, size),
                         !.vs = IF step = "readStart" THEN fifo.validStart ELSE @,
                         !.ve = IF step = "readEnd" THEN fifo.validEnd ELSE @,
                         !.start = IF step = "readEnd" THEN read.startIndex1 ELSE @,
                         !.size = size]
           /\ out' = CASE step = "copyLo" ->
                            [out EXCEPT !.lo = fifo.buffers[cons.start].lo]
                       [] step = "copyHi" ->
                            [out EXCEPT !.hi = fifo.buffers[cons.start].hi]
                       [] OTHER -> out
           /\ fifo' = IF step = "finish"
                      THEN [fifo EXCEPT !.validStart = Advance(@, cons.size)]
                      ELSE fifo
           /\ delivered' = IF step = "finish" /\ cons.size > 0
                           THEN Append(delivered, out) ELSE delivered
    /\ UNCHANGED <<offered, accepted, lastOp, prod, cutVars, procVars, extraVars>>

NextFifoSPSC == ProducerCall \/ ProducerStep \/ ConsumerCall \/ ConsumerStep

SpecFifoSPSC == Init /\ [][NextFifoSPSC]_vars

\* ------------------------------------------------------------------------
\* Properties of the Fifo
\* ------------------------------------------------------------------------

\* The items held, oldest first: the slots from validStart up to validEnd.
Held(f) ==
    [k \in 1..getNumAvailableForReading(f) |->
        f.buffers[(f.validStart + k - 1) % Capacity]]

\* juce::AbstractFifo::getFreeSpace() = 0
IsFull(f) == Capacity - getNumAvailableForReading(f) - 1 = 0

\* Every item accepted is either delivered already or still held, in push
\* order and unchanged.
FifoOrder == accepted = delivered \o Held(fifo)

\* C4 as stated: every push made while fewer than Capacity (30) items are
\* held returns true, a push beyond that returns false and leaves the queue
\* as it was, and the accepted items come out unchanged and in push order.
C4_RoundTripUpToCapacity ==
    /\ lastOp.op = "push" /\ lastOp.before < Capacity => lastOp.ok
    /\ lastOp.op = "push" /\ lastOp.before >= Capacity => ~lastOp.ok /\ lastOp.kept
    /\ FifoOrder

\* C4 (amended): the same with Capacity - 1 (29) in place of Capacity: a
\* push made while fewer than Capacity - 1 items are held returns true, a
\* push made while Capacity - 1 items are held returns false and leaves the
\* queue as it was, and the accepted items come out unchanged and in push
\* order.
C4_RoundTripUpToCapacityMinusOne ==
    /\ lastOp.op = "push" /\ lastOp.before < Capacity - 1 => lastOp.ok
    /\ lastOp.op = "push" /\ lastOp.before >= Capacity - 1 => ~lastOp.ok /\ lastOp.kept
    /\ FifoOrder

\* Capacity - 1 items were pushed onto the empty Fifo, a further push was
\* refused, and all Capacity - 1 items have been pulled again.
C4_Witness ==
    /\ Len(accepted) = Capacity - 1
    /\ offered > Len(accepted)
    /\ delivered = accepted
    /\ lastOp.op = "pull" /\ lastOp.ok

\* C5: push on a full queue returns false and changes neither the stored
\* items nor the number available; pull on an empty queue returns false and
\* changes neither its output argument nor the queue; the number available
\* for reading is the number of successful pushes minus that of successful
\* pulls.
C5_RefusalsChangeNothing ==
    /\ lastOp.op = "push" /\ lastOp.before = Capacity - 1 => ~lastOp.ok /\ lastOp.kept
    /\ lastOp.op = "pull" /\ lastOp.before = 0 =>
           ~lastOp.ok /\ lastOp.kept /\ lastOp.outKept
    /\ getNumAvailableForReading(fifo) = Len(accepted) - Len(delivered)

\* A pull was just refused on an empty queue whose last slot read still
\* holds an item, after an earlier push had been refused on the full queue.
C5_Witness ==
    /\ lastOp.op = "pull" /\ ~lastOp.ok
    /\ out # EmptyItem
    /\ offered > Len(accepted)
    /\ Len(delivered) = Capacity - 1

\* C6: with the producer in push and the consumer in pull at the same time,
\* the items delivered are a prefix of the items accepted (each whole, once,
\* in push order), the number held never exceeds the capacity, and the two
\* threads never copy into and out of the same slot.
C6_SingleProducerSingleConsumer ==
    /\ Len(delivered) <= Len(accepted)
    /\ delivered = SubSeq(accepted, 1, Len(delivered))
    /\ Len(accepted) - Len(delivered) <= Capacity
    /\ IsCopy(StepOf(PushProgram, prod)) /\ IsCopy(StepOf(PullProgram, cons))
           => prod.start # cons.start

\* Both threads are in the middle of their copies after the ring has
\* wrapped around.
C6_Witness ==
    /\ StepOf(PushProgram, prod) = "copyHi"
    /\ StepOf(PullProgram, cons) = "copyHi"
    /\ Len(delivered) >= Capacity - 1
    /\ prod.start < cons.start

\* ------------------------------------------------------------------------
\* SpecCut: updateCutFilter calls on one CutFilter chain
\* ------------------------------------------------------------------------

\* Cut-off frequencies and sample rates the cut designs are asked for.
CutFreqs == {20, 20000}
CutRates == {48000}

\* A call updateCutFilter(cutChain, coefficients, slope) with an array of at
\* least slope + 1 coefficient sets, designed by one of the functions fns.
CutCall(fns) ==
    \E slope \in Slopes, fn \in fns, freq \in CutFreqs, rate \in CutRates,
       n \in 1..4 :
        /\ n >= slope + 1
        /\ LET coefficients == DesignCut(fn, freq, rate, 2 * n)
           IN  /\ cutChain' = updateCutFilter(cutChain, coefficients, slope)
               /\ lastCut' = [coefficients |-> coefficients, slope |-> slope,
                              calls |-> 1]
               /\ cutRepeat' = (lastCut.calls > 0 /\ lastCut.slope = slope
                                  /\ lastCut.coefficients = coefficients)
        /\ UNCHANGED <<cutHistory, peakStage, peakHistory, fifoVars, procVars,
                       sampleVars, serialVars, editorVars,
                   pathVars,
                   notifyVars,
                   layoutVars,
                   designVars,
                   reprepareVars>>

\* A call updateCoefficients(peak.coefficients, peakCoefficients) on the peak
\* filter; it repeats the call before it if the filter holds the same set.
UpdatePeakCall ==
    \E gain \in PeakGains, rate \in CutRates :
        LET peakCoefficients == Token("peak", 750, rate, 2, 0, 1, gain)
        IN  /\ peakStage' = updateCoefficients(peakStage, peakCoefficients,
                                               Origin("call", 0))
            /\ cutRepeat' = (CoefOf(peakStage) = <<peakCoefficients, peakCoefficients>>)
            /\ UNCHANGED <<cutVars, cutHistory, peakHistory, fifoVars, procVars,
                           sampleVars, serialVars, editorVars,
                   pathVars,
                   notifyVars,
                   layoutVars,
                   designVars,
                   reprepareVars>>

\* A block that is not silent goes through cutChain and the peak filter:
\* every stage that is not bypassed is left with history.
ProcessCut ==
    /\ cutHistory' = cutHistory \cup {i \in Stages : ~cutChain[i].byp}
    /\ peakHistory' = TRUE
    /\ cutRepeat' = FALSE
    /\ UNCHANGED <<cutVars, peakStage, fifoVars, procVars, sampleVars, serialVars, editorVars,
                   pathVars,
                   notifyVars,
                   layoutVars,
                   designVars,
                   reprepareVars>>

\* The calls made with a low cut or a high cut design.
UpdateCutCall == CutCall({"HP", "LP"})

NextCut == UpdateCutCall

\* ------------------------------------------------------------------------
\* SpecRepeat: updates of a low cut chain and of a peak filter, each
\* possibly made twice in a row, with blocks processed in between
\* ------------------------------------------------------------------------

LowCutCall == CutCall({"HP"})

NextRepeat == LowCutCall \/ UpdatePeakCall \/ ProcessCut

SpecRepeat == Init /\ [][NextRepeat]_vars

SpecCut == Init /\ [][NextCut]_vars

\* C1: after any sequence of updateCutFilter calls whose last call used
\* slope s and coefficient array c, stages 0..s are not bypassed and stage i
\* holds a copy of c[i], and stages s+1..3 are bypassed, whatever the slopes
\* of the earlier calls.
C1_CutChainFollowsLastCall ==
    lastCut.calls > 0 =>
        \A i \in Stages :
            IF i <= lastCut.slope
            THEN /\ ~cutChain[i].byp
                 /\ CoefOf(cutChain[i]) =
                        <<lastCut.coefficients[i], lastCut.coefficients[i]>>
            ELSE cutChain[i].byp

\* The last call used the smallest order after a call of the largest order
\* with other coefficients: stage 3 still holds that call's set.
C1_Witness ==
    /\ lastCut.calls > 0
    /\ lastCut.slope = 0
    /\ cutChain[3].lo.v.fn # "default"
    /\ cutChain[3].lo.v.freq # lastCut.coefficients[0].freq
    /\ cutChain[3].byp

\* ------------------------------------------------------------------------
\* Spec: the processor.  The audio thread runs processBlock, the message
\* thread runs setStateInformation, the host writes parameters at any time
\* and calls prepareToPlay while neither call is running.
\* ------------------------------------------------------------------------

\* The call a thread's writes are made by.
OriginOf(t) == IF t = "audio" THEN Origin("block", blocks) ELSE Origin("state", 0)

\* Thread t takes the next step: the other thread is switched away from,
\* which is a preemption if it is inside a call.
Run(t) ==
    /\ last' = t
    /\ IF last # t /\ thread[last].pc # "idle"
       THEN /\ preemptions < MaxPreemptions
            /\ preemptions' = preemptions + 1
       ELSE UNCHANGED preemptions

\* The host or the editor writes one parameter (an atomic store).
SetParameter ==
    \E k \in 1..Len(Fields) : \E v \in ParameterValues(Fields[k]) :
        /\ paramWrites < MaxParamWrites
        /\ apvts[Fields[k]] # v
        /\ apvts' = [apvts EXCEPT ![Fields[k]] = v]
        /\ paramWrites' = paramWrites + 1
        /\ UNCHANGED <<sampleRate, chains, thread, blocks, restores,
                       filtered, last, preemptions, prepares, fifoVars, cutVars, extraVars>>

\* prepareToPlay(rate, samplesPerBlock): the host sets the sample rate, the
\* chains are prepared and updateFilters runs; the host makes this call
\* while no processBlock is running.
PrepareToPlay ==
    \E rate \in SampleRates :
        /\ \A t \in DOMAIN thread : thread[t].pc = "idle"
        /\ prepares < MaxPrepares
        /\ prepares' = prepares + 1
        /\ sampleRate' = rate
        /\ chains' = ApplyChainOps(chains, UpdateFiltersOps(apvts, rate),
                                   Origin("prepare", 0))
        /\ UNCHANGED <<apvts, thread, blocks, restores, paramWrites, filtered,
                       last, preemptions, fifoVars, cutVars, extraVars>>

\* processBlock is entered on the audio thread (after a prepareToPlay).
ProcessBlockBegin ==
    /\ thread["audio"].pc = "idle"
    /\ sampleRate > 0
    /\ blocks < MaxBlocks
    /\ Run("audio")
    /\ blocks' = blocks + 1
    /\ thread' = [thread EXCEPT !["audio"] = [IdleCall EXCEPT !.pc = "load", !.i = 1]]
    /\ filtered' = {}
    /\ UNCHANGED <<apvts, sampleRate, chains, restores, paramWrites,
                   prepares, fifoVars, cutVars, extraVars>>

\* setStateInformation is entered on the message thread: the data is read
\* and, if the tree is valid, replaces the parameters' state.
SetStateInformationBegin ==
    \E tree \in Trees :
        /\ thread["message"].pc = "idle"
        /\ restores < MaxRestores
        /\ Run("message")
        /\ restores' = restores + 1
        /\ IF tree.valid
           THEN /\ apvts' = tree.state
                /\ thread' = [thread EXCEPT
                                !["message"] = [IdleCall EXCEPT !.pc = "load", !.i = 1]]
           ELSE UNCHANGED <<apvts, thread>>
        /\ UNCHANGED <<sampleRate, chains, blocks, paramWrites,
                       filtered, prepares, fifoVars, cutVars, extraVars>>

\* getChainSettings: one atomic load of a parameter into the snapshot; after
\* the last load updateFilters goes on with the snapshot and the sample rate.
LoadSetting(t) ==
    /\ thread[t].pc = "load"
    /\ Run(t)
    /\ LET c == thread[t]
           f == Fields[c.i]
           cs == [c.cs EXCEPT ![f] = apvts[f]]
       IN  thread' = [thread EXCEPT ![t] =
               IF c.i = Len(Fields)
               THEN [c EXCEPT !.cs = cs, !.pc = "update", !.i = 1,
                              !.ops = UpdateFiltersOps(cs, sampleRate)]
               ELSE [c EXCEPT !.cs = cs, !.i = c.i + 1,
                              !.reads = IF c.i = 1 THEN c.reads + 1 ELSE c.reads]]
    /\ UNCHANGED <<apvts, sampleRate, chains, blocks, restores, paramWrites,
                   filtered, prepares, fifoVars, cutVars, extraVars>>

\* The position after the last step of updateFilters: processBlock goes on
\* to run the block through the chains, setStateInformation returns.
AfterUpdate(t) ==
    IF t = "audio" THEN [IdleCall EXCEPT !.pc = "process", !.i = 1,
                                        !.cs = thread[t].cs,
                                        !.reads = thread[t].reads]
    ELSE IdleCall

\* One step of updateFilters: a design call or one write to a chain.
UpdateStep(t) ==
    /\ thread[t].pc = "update"
    /\ Run(t)
    /\ LET c == thread[t]
           op == Head(c.ops)
       IN  /\ chains' = ApplyChainOp(chains, op, OriginOf(t))
           /\ thread' = [thread EXCEPT ![t] =
                   IF Len(c.ops) = 1 THEN AfterUpdate(t)
                   ELSE [c EXCEPT !.ops = Tail(c.ops), !.i = c.i + 1]]
    /\ UNCHANGED <<apvts, sampleRate, blocks, restores, paramWrites, filtered,
                   prepares, fifoVars, cutVars, extraVars>>

\* The chain processBlock runs the block through first, and second.
ChanAt(i) == IF i = 1 THEN "left" ELSE "right"

\* leftChain.process(leftContext), then rightChain.process(rightContext).
ProcessChain ==
    /\ thread["audio"].pc = "process"
    /\ Run("audio")
    /\ filtered' = EnabledStages(chains[ChanAt(thread["audio"].i)])
    /\ thread' = [thread EXCEPT !["audio"] =
           IF thread["audio"].i = 2 THEN IdleCall ELSE [@ EXCEPT !.i = 2]]
    /\ UNCHANGED <<apvts, sampleRate, chains, blocks, restores, paramWrites,
                   prepares, fifoVars, cutVars, extraVars>>

Next ==
    \/ SetParameter
    \/ PrepareToPlay
    \/ ProcessBlockBegin
    \/ SetStateInformationBegin
    \/ \E t \in {"audio", "message"} : LoadSetting(t)
    \/ \E t \in {"audio", "message"} : UpdateStep(t)
    \/ ProcessChain

Spec == Init /\ [][Next]_vars

\* Every stage of a MonoChain, bypassed or not.
AllStages(mono) ==
    {mono[pos][i] : pos \in CutPositions, i \in Stages} \cup {mono.Peak[0]}

\* The two parts of every coefficient set of leftChain and rightChain.
AllHalves ==
    UNION {{st.lo, st.hi} : st \in AllStages(chains["left"]) \cup AllStages(chains["right"])}

\* A coefficient set the design functions computed (not the default of a
\* newly constructed filter).
Designed(h) == h.v.fn # "default"

\* leftChain and rightChain hold equal coefficient values in every stage and
\* equal bypass flags in every cut stage.
Symmetric(ch) ==
    /\ \A pos \in CutPositions : \A i \in Stages :
          /\ CoefOf(ch["left"][pos][i]) = CoefOf(ch["right"][pos][i])
          /\ ch["left"][pos][i].byp = ch["right"][pos][i].byp
    /\ CoefOf(ch["left"].Peak[0]) = CoefOf(ch["right"].Peak[0])

\* C2: in every processBlock call the snapshot is read once, and no chain
\* runs the block through an enabled stage whose coefficients were written
\* from the snapshot of an earlier block.
C2_BlockFilteredWithOwnSnapshot ==
    /\ thread["audio"].pc \in {"update", "process"} => thread["audio"].reads = 1
    /\ \A st \in filtered : \A h \in {st.lo, st.hi} :
          ~(h.src.by = "block" /\ h.src.n < blocks)

\* C3: every step that completes an updateFilters call (the last write of
\* the call made from processBlock or setStateInformation, or prepareToPlay)
\* leaves leftChain and rightChain with equal coefficient sets and equal
\* bypass flags.
C3_ChainsEqualAfterUpdateFilters ==
    [][(\/ \E t \in {"audio", "message"} :
              thread[t].pc = "update" /\ thread'[t].pc # "update"
        \/ prepares' # prepares)
       => Symmetric(chains')]_vars

\* C7: no chain runs a block through a stage whose coefficient set is partly
\* the set in place before an updateCoefficients call and partly its
\* replacement.
C7_NoTornCoefficientsFiltered ==
    \A st \in filtered : st.lo.v = st.hi.v

\* C8: no coefficient set of leftChain or rightChain is written by
\* setStateInformation, which runs on the message thread.
C8_OnlyAudioThreadWritesChains ==
    \A h \in AllHalves : h.src.by # "state"

\* C9: no coefficient set of leftChain or rightChain holds values designed
\* for a sample rate of 0 or less.
C9_NoDesignAtInvalidSampleRate ==
    \A h \in AllHalves : Designed(h) => h.v.rate > 0

\* C10: every coefficient set designed for a positive sample rate was
\* designed for a frequency strictly below half that rate.
C10_DesignFrequencyBelowNyquist ==
    \A h \in AllHalves : (Designed(h) /\ h.v.rate > 0) => 2 * h.v.freq < h.v.rate

\* Chains a and b hold equal coefficient values and equal bypass flags in
\* every stage.
SameSettings(a, b) ==
    \A c \in Chans :
        /\ \A pos \in CutPositions : \A i \in Stages :
              /\ CoefOf(a[c][pos][i]) = CoefOf(b[c][pos][i])
              /\ a[c][pos][i].byp = b[c][pos][i].byp
        /\ CoefOf(a[c].Peak[0]) = CoefOf(b[c].Peak[0])

\* C20: when a processBlock whose snapshot equals the current parameter
\* values in every field (no parameter write overlapped its getChainSettings
\* or came after it) completes its updateFilters, both chains hold the
\* coefficients and bypass flags derived from those values.
C20_SettledBlockLeavesDerivedChains ==
    [][(/\ thread["audio"].pc = "update"
        /\ thread'["audio"].pc = "process"
        /\ thread["audio"].cs = apvts')
       => SameSettings(chains', ApplyChainOps(chains',
                                   UpdateFiltersOps(apvts', sampleRate'),
                                   OriginOf("audio")))]_vars

\* ------------------------------------------------------------------------
\* SpecSample: one SingleChannelSampleFifo, prepared once, fed by update
\* calls and drained by getAudioBuffer calls
\* ------------------------------------------------------------------------

\* prepare(bufferSize) on the newly constructed object.
SamplePrepare ==
    \E bufferSize \in 1..MaxBlockSize :
        /\ ~sampleFifo.prepared
        /\ sampleFifo' = prepare(sampleFifo, bufferSize)
        /\ UNCHANGED <<fed, pushLog, drained, fifoVars, cutVars, procVars, serialVars, cutMoreVars, editorVars,
                   pathVars,
                   notifyVars,
                   layoutVars,
                   designVars,
                   reprepareVars>>

\* update(buffer) with a buffer of n samples (update asserts prepared),
\* while at most limit samples have been fed.
UpdateCall(limit) ==
    \E n \in 1..MaxUpdateSamples :
        /\ sampleFifo.prepared
        /\ fed + n <= limit
        /\ LET st == update([s |-> sampleFifo, fed |-> fed, log |-> pushLog],
                            [i \in 1..n |-> fed + i])
           IN  /\ sampleFifo' = st.s
               /\ fed' = st.fed
               /\ pushLog' = st.log
        /\ UNCHANGED <<drained, fifoVars, cutVars, procVars, serialVars, cutMoreVars, editorVars,
                   pathVars,
                   notifyVars,
                   layoutVars,
                   designVars,
                   reprepareVars>>

SampleUpdate == UpdateCall(MaxSamples)

\* getAudioBuffer(buf) by the consumer.
SampleGet ==
    /\ LET r == getAudioBuffer(sampleFifo, <<>>)
       IN  /\ sampleFifo' = r.s
           /\ drained' = IF r.ok THEN Append(drained, r.buf) ELSE drained
    /\ UNCHANGED <<fed, pushLog, fifoVars, cutVars, procVars, serialVars, cutMoreVars, editorVars,
                   pathVars,
                   notifyVars,
                   layoutVars,
                   designVars,
                   reprepareVars>>

NextSample == SamplePrepare \/ SampleUpdate \/ SampleGet

SpecSample == Init /\ [][NextSample]_vars

\* The blocks of the pushes that returned true, in order.
RECURSIVE Accepted(_)
Accepted(log) ==
    IF log = <<>> THEN <<>>
    ELSE IF Head(log).ok THEN <<Head(log).block>> \o Accepted(Tail(log))
         ELSE Accepted(Tail(log))

\* The samples first .. first + n - 1 in arrival order.
Run1(first, n) == [i \in 1..n |-> first + i - 1]

\* C12: while no push has been refused, once k * B samples have been fed the
\* queue has been given exactly k blocks, block j holding the samples
\* j*B+1 .. j*B+B (numbered from 1) in arrival order.
C12_BlockPushedWithItsLastSample ==
    (sampleFifo.prepared /\ fed % sampleFifo.size = 0
        /\ \A j \in 1..Len(pushLog) : pushLog[j].ok) =>
        /\ Len(pushLog) = fed \div sampleFifo.size
        /\ \A j \in 1..Len(pushLog) :
              pushLog[j].block = Run1((j - 1) * sampleFifo.size + 1, sampleFifo.size)

\* C13: every push of a completed block that the full queue refused left
\* the queue as it was and restarted the accumulator (the sample that
\* caused the push is stored at index 0); every block offered, refused or
\* not, holds the B samples that arrived last; and the queue hands out
\* exactly the accepted blocks, in order.
C13_FullQueueDropsNewestBlock ==
    /\ \A j \in 1..Len(pushLog) :
          /\ ~pushLog[j].ok => (pushLog[j].kept /\ pushLog[j].restart = 1)
          /\ pushLog[j].block = Run1(pushLog[j].at - sampleFifo.size + 1, sampleFifo.size)
          /\ pushLog[j].at = j * sampleFifo.size
    /\ Accepted(pushLog) = drained \o Held(sampleFifo.audioBufferFifo)

\* A block was refused by the full queue, a block was drained afterwards and
\* the next completed block was accepted.
C13_Witness ==
    \E j \in 1..Len(pushLog) :
        /\ ~pushLog[j].ok
        /\ j < Len(pushLog)
        /\ pushLog[Len(pushLog)].ok
        /\ Len(drained) > 0

\* ------------------------------------------------------------------------
\* SpecSerial: the processor taken call by call: prepareToPlay and
\* processBlock calls that run to completion, parameter writes in between
\* ------------------------------------------------------------------------

\* prepareToPlay(rate, samplesPerBlock): both chains are prepared, then
\* updateFilters runs.
SerialPrepareToPlay ==
    \E rate \in SampleRates :
        /\ calls < MaxCalls
        /\ calls' = calls + 1
        /\ sampleRate' = rate
        /\ history' = [c \in Chans |-> prepareHistory(history[c])]
        /\ chains' = ApplyChainOps(chains, UpdateFiltersOps(apvts, rate),
                                   Origin("prepare", 0))
        /\ lastCall' = [NoCall EXCEPT !.kind = "prepare", !.n = calls + 1,
                                      !.before = history]
        /\ UNCHANGED <<channelFifos, apvts, thread, blocks, restores, paramWrites,
                       prepares, filtered, last, preemptions, fifoVars, cutVars,
                       sampleVars, cutMoreVars, editorVars,
                   pathVars,
                   notifyVars,
                   layoutVars,
                   designVars,
                   reprepareVars>>

\* processBlock(buffer, midiMessages) on a prepared processor: updateFilters,
\* then the left channel of the block goes through leftChain and the right
\* channel through rightChain.
SerialProcessBlock ==
    \E input \in [Chans -> Signals] :
        /\ sampleRate > 0
        /\ calls < MaxCalls
        /\ calls' = calls + 1
        /\ chains' = ApplyChainOps(chains, UpdateFiltersOps(apvts, sampleRate),
                                   Origin("block", calls + 1))
        /\ history' = [c \in Chans |-> process(chains'[c], history[c], input[c]).history]
        /\ lastCall' = [kind |-> "block", n |-> calls + 1, before |-> history,
                        input |-> input,
                        output |-> [c \in Chans |->
                                      process(chains'[c], history[c], input[c]).out]]
        /\ UNCHANGED <<channelFifos, apvts, sampleRate, thread, blocks, restores,
                       paramWrites, prepares, filtered, last, preemptions, fifoVars,
                       cutVars, sampleVars, cutMoreVars, editorVars,
                   pathVars,
                   notifyVars,
                   layoutVars,
                   designVars,
                   reprepareVars>>

NextSerial == SetParameter \/ SerialPrepareToPlay \/ SerialProcessBlock

SpecSerial == Init /\ [][NextSerial]_vars

\* A SingleChannelSampleFifo that has been handed at least one sample.
HasBeenFed(s) == s.fifoIndex > 0 \/ getNumAvailableForReading(s.audioBufferFifo) > 0

\* C11: after prepareToPlay, once a processBlock call has completed,
\* leftChannelFifo and rightChannelFifo are prepared and have been fed the
\* block's samples.
C11_BlocksFedToChannelFifos ==
    lastCall.kind = "block" =>
        \A c \in Chans : channelFifos[c].prepared /\ HasBeenFed(channelFifos[c])

\* C14: when a prepareToPlay call has completed, every stage of leftChain
\* and rightChain has zeroed history.
C14_PrepareResetsFilterHistory ==
    lastCall.kind = "prepare" => \A c \in Chans : history[c] = {}

\* prepareToPlay completed after processing had left history in both chains.
C14_Witness ==
    /\ lastCall.kind = "prepare"
    /\ \A c \in Chans : lastCall.before[c] # {}

\* The stages of a chain that take part in processing.
Enabled(mono) == {at \in {ChainOrder[k] : k \in 1..Len(ChainOrder)} : ~mono[at[1]][at[2]].byp}

\* Every enabled stage holds coefficients designed for a positive sample
\* rate and a frequency below half of it.
ValidConfiguration(mono) ==
    \A at \in Enabled(mono) : \A h \in {mono[at[1]][at[2]].lo, mono[at[1]][at[2]].hi} :
        Designed(h) /\ h.v.rate > 0 /\ 2 * h.v.freq < h.v.rate

\* C17 as stated: with a valid configuration installed, a processBlock call
\* on an all-zero input block leaves an all-zero output block, on both
\* channels.
C17_SilenceInSilenceOut ==
    \A c \in Chans :
        (lastCall.kind = "block" /\ ValidConfiguration(chains[c])
            /\ lastCall.input[c] = 0) => lastCall.output[c] = 0

\* C17, for stages without history: with a valid configuration installed
\* and zero history in every enabled stage of a chain, a processBlock call
\* on an all-zero input block leaves an all-zero output block on that
\* channel.
C17_SilenceInSilenceOutFromRest ==
    \A c \in Chans :
        (lastCall.kind = "block" /\ ValidConfiguration(chains[c])
            /\ lastCall.input[c] = 0
            /\ lastCall.before[c] \cap Enabled(chains[c]) = {}) => lastCall.output[c] = 0

\* A silent block went through a validly configured chain whose stages were
\* at rest although an earlier block had left history in the other chain.
C17_Witness ==
    /\ lastCall.kind = "block"
    /\ ValidConfiguration(chains["left"])
    /\ lastCall.input["left"] = 0
    /\ lastCall.before["left"] \cap Enabled(chains["left"]) = {}
    /\ lastCall.before["right"] # {}
    /\ lastCall.output["left"] = 0

\* C16: an update (updateCutFilter on the cut chain, updateCoefficients on
\* the peak filter) made with the arguments of the update before it leaves
\* coefficients, bypass flags and filter history as they were.
C16_RepeatedUpdateChangesNothing ==
    [][cutRepeat' => /\ cutChain' = cutChain
                     /\ peakStage' = peakStage
                     /\ cutHistory' = cutHistory
                     /\ peakHistory' = peakHistory]_vars

\* A repeated updateCutFilter call on a chain with history, some stages
\* enabled and some bypassed.
C16_Witness ==
    /\ cutRepeat
    /\ cutHistory # {}
    /\ peakHistory
    /\ lastCut.calls > 0
    /\ lastCut.slope = 1
    /\ \E i \in Stages : cutChain[i].byp

\* ------------------------------------------------------------------------
\* SpecEditor: the editor's response curve beside a processor that is
\* prepared, processes blocks and has its parameters written
\* ------------------------------------------------------------------------

\* ResponseCurveComponent's constructor: it registers as listener of every
\* parameter and calls updateChain().
EditorConstruct ==
    /\ ~editorOpen
    /\ editorOpen' = TRUE
    /\ LET w == EditorWrites(monoChain, chains, apvts, sampleRate)
       IN  monoChain' = w.monoChain /\ chains' = w.chains
    /\ UNCHANGED <<parametersChanged, signalled, timer, tick, responseCurve, apvts,
                   sampleRate,
                   thread, blocks, restores, paramWrites, prepares, filtered, last,
                   preemptions, fifoVars, cutVars, sampleVars, serialVars,
                   cutMoreVars,
                   pathVars,
                   notifyVars,
                   layoutVars,
                   designVars,
                   reprepareVars>>

\* parameterValueChanged(parameterIndex, newValue)
ParameterValueChanged ==
    /\ editorOpen
    /\ parametersChanged' = TRUE
    /\ signalled' = TRUE
    /\ UNCHANGED <<editorOpen, monoChain, timer, tick, responseCurve, procVars,
                   fifoVars, cutVars,
                   sampleVars, serialVars, cutMoreVars,
                   pathVars,
                   notifyVars,
                   layoutVars,
                   designVars,
                   reprepareVars>>

\* timerCallback up to its test of parametersChanged: the two path
\* producers drain their channel fifos, then the flag is compared and set.
TimerCheck ==
    /\ editorOpen
    /\ timer = "idle"
    /\ channelFifos' = [c \in Chans |-> DrainAll(channelFifos[c])]
    /\ LET r == compareAndSetBool(parametersChanged, FALSE, TRUE)
       IN  /\ parametersChanged' = r.value
           /\ timer' = IF r.ok THEN "update" ELSE "idle"
           /\ tick' = [any |-> TRUE, signalled |-> signalled, taken |-> r.ok,
                       recomputed |-> FALSE]
    /\ signalled' = FALSE
    /\ UNCHANGED <<editorOpen, monoChain, responseCurve, history, calls, lastCall,
                   procVars,
                   fifoVars, cutVars, sampleVars, cutMoreVars,
                   pathVars,
                   notifyVars,
                   layoutVars,
                   designVars,
                   reprepareVars>>

\* timerCallback after a successful test: updateChain(), then repaint().
TimerUpdate ==
    /\ timer = "update"
    /\ LET w == EditorWrites(monoChain, chains, apvts, sampleRate)
       IN  monoChain' = w.monoChain /\ chains' = w.chains
    /\ tick' = [tick EXCEPT !.recomputed = TRUE]
    /\ timer' = "idle"
    /\ UNCHANGED <<editorOpen, parametersChanged, signalled, responseCurve, apvts,
                   sampleRate,
                   thread, blocks, restores, paramWrites, prepares, filtered, last,
                   preemptions, fifoVars, cutVars, sampleVars, serialVars,
                   cutMoreVars,
                   pathVars,
                   notifyVars,
                   layoutVars,
                   designVars,
                   reprepareVars>>

\* paint(g): reads the monoChain and the processor's sample rate.
Paint ==
    /\ editorOpen
    /\ responseCurve' = magnitudes(monoChain, sampleRate)
    /\ UNCHANGED <<editorOpen, monoChain, parametersChanged, signalled, timer, tick,
                   procVars, fifoVars, cutVars, sampleVars, serialVars, cutMoreVars,
                   pathVars,
                   notifyVars,
                   layoutVars,
                   designVars,
                   reprepareVars>>

NextEditor ==
    \/ EditorConstruct
    \/ Paint
    \/ ParameterValueChanged
    \/ TimerCheck
    \/ TimerUpdate
    \/ SetParameter
    \/ SerialPrepareToPlay
    \/ SerialProcessBlock

SpecEditor == Init /\ [][NextEditor]_vars

\* C18: no step of the editor (its construction, parameterValueChanged,
\* timerCallback with its updateChain, paint) changes the coefficients, bypass
\* flags or filter history of leftChain or rightChain.
C18_EditorLeavesProcessorChains ==
    [][editorVars' # editorVars => (chains' = chains /\ history' = history)]_vars

\* The editor has recomputed its own chain from changed parameters while the
\* processor's chains hold designed coefficients and history.
C18_Witness ==
    /\ tick.recomputed
    /\ responseCurve.factors # {}
    /\ monoChain.LowCut[1].lo.src.by = "editor"
    /\ chains["left"].Peak[0].lo.src.by = "block"
    /\ history["left"] # {}

\* C19: a timerCallback's test finds the flag set exactly if
\* parameterValueChanged ran since the test of the tick before (test and
\* clear being one step, no signal is lost or seen twice), and the tick
\* recomputes the display chain exactly if its test found the flag set.
C19_RecomputeIffSignalled ==
    /\ parametersChanged = signalled
    /\ tick.any => tick.taken = tick.signalled
    /\ tick.recomputed => tick.taken
    /\ timer = "update" => (tick.taken /\ ~tick.recomputed)
    /\ (tick.any /\ timer = "idle") => tick.recomputed = tick.taken

\* A tick took a signal and recomputed, and a further signal is already
\* pending for the next tick.
C19_Witness ==
    /\ tick.recomputed
    /\ signalled
    /\ parametersChanged

\* ------------------------------------------------------------------------
\* SpecDrain: a prepared SingleChannelSampleFifo fed by update calls while
\* PathProducer::process drains it into the spectrum window
\* ------------------------------------------------------------------------

\* Number of samples fed while the drain is observed.
MaxDrainSamples == 8

\* The audio thread's update calls.
DrainUpdate == UpdateCall(MaxDrainSamples)

\* PathProducer::process is entered.
DrainBegin ==
    /\ cycle.pc = "idle"
    /\ cycle' = [pc             |-> "test",
                 startAccepted  |-> Len(Accepted(pushLog)),
                 startAvailable |-> getNumAvailableForReading(sampleFifo.audioBufferFifo),
                 pulled         |-> 0]
    /\ UNCHANGED <<window, appended, lastShift, sampleVars, fifoVars, cutVars,
                   procVars, serialVars, cutMoreVars, editorVars,
                   notifyVars,
                   layoutVars,
                   designVars,
                   reprepareVars>>

\* while (leftChannelFifo->getNumCompleteBuffersAvailable() > 0): the test.
\* When it fails the drain is over (what process does afterwards does not
\* touch the queue or the window).
DrainTest ==
    /\ cycle.pc = "test"
    /\ cycle' = [cycle EXCEPT !.pc =
                    IF getNumAvailableForReading(sampleFifo.audioBufferFifo) > 0
                    THEN "pull" ELSE "idle"]
    /\ UNCHANGED <<window, appended, lastShift, sampleVars, fifoVars, cutVars,
                   procVars, serialVars, cutMoreVars, editorVars,
                   notifyVars,
                   layoutVars,
                   designVars,
                   reprepareVars>>

\* The loop body: getAudioBuffer(tempIncomingBuffer) and, if it returned
\* true, the shift of monoBuffer and the copy of the block to its end.
DrainPull ==
    /\ cycle.pc = "pull"
    /\ LET r == getAudioBuffer(sampleFifo, <<>>)
       IN  /\ sampleFifo' = r.s
           /\ IF r.ok
              THEN /\ drained' = Append(drained, r.buf)
                   /\ \E w \in ShiftAppend(window, r.buf) : window' = w
                   /\ appended' = Append(appended, r.buf)
                   /\ lastShift' = [before |-> window, block |-> r.buf]
                   /\ cycle' = [cycle EXCEPT !.pc = "test", !.pulled = @ + 1]
              ELSE /\ cycle' = [cycle EXCEPT !.pc = "test"]
                   /\ UNCHANGED <<drained, window, appended, lastShift>>
    /\ UNCHANGED <<fed, pushLog, fifoVars, cutVars, procVars, serialVars,
                   cutMoreVars, editorVars,
                   notifyVars,
                   layoutVars,
                   designVars,
                   reprepareVars>>

NextDrain ==
    \/ SamplePrepare
    \/ DrainUpdate
    \/ DrainBegin
    \/ DrainTest
    \/ DrainPull

SpecDrain == Init /\ [][NextDrain]_vars

\* C21: when a PathProducer::process call ends its drain and the queue
\* accepted no block during the call, the queue holds no completed block
\* and the blocks appended to the window are exactly the blocks the queue
\* accepted, each once, in the order they were pushed.
C21_DrainEmptiesQueueInOrder ==
    [][(/\ cycle.pc = "test"
        /\ cycle'.pc = "idle"
        /\ Len(Accepted(pushLog')) = cycle.startAccepted)
       => /\ getNumAvailableForReading(sampleFifo'.audioBufferFifo) = 0
          /\ appended' = Accepted(pushLog')]_vars

\* A drain that found two blocks queued has returned after pulling both,
\* with no push made during it.
C21_Witness ==
    /\ cycle.pc = "idle"
    /\ cycle.startAvailable = 2
    /\ cycle.pulled = 2
    /\ Len(Accepted(pushLog)) = cycle.startAccepted
    /\ Len(appended) >= 3

\* C22: a drain cycle pulls at most the number of completed blocks that
\* were available when it started.
C22_CyclePullsAtMostInitiallyAvailable ==
    cycle.pulled <= cycle.startAvailable

\* The concatenation of a sequence of blocks.
RECURSIVE Flatten(_)
Flatten(blocksSeq) ==
    IF blocksSeq = <<>> THEN <<>> ELSE Head(blocksSeq) \o Flatten(Tail(blocksSeq))

\* The last n elements of a sequence of at least n elements.
LastN(seq, n) == SubSeq(seq, Len(seq) - n + 1, Len(seq))

\* C23: after a shift-and-append of a block of s <= W samples the window
\* is its previous samples s..W-1 followed by the block, its length is
\* still W, and the window holds the W samples drained last, in arrival
\* order (cleared samples before the first).
C23_WindowSlides ==
    (lastShift.block # <<>> /\ Len(lastShift.block) <= WindowLength) =>
        /\ Len(window) = WindowLength
        /\ window = SubSeq(lastShift.before, Len(lastShift.block) + 1, WindowLength)
                        \o lastShift.block
        /\ window = LastN(NewWindow \o Flatten(appended), WindowLength)

\* ------------------------------------------------------------------------
\* SpecNotify: notified parameter writes beside the editor's timer
\* ------------------------------------------------------------------------

\* setValueNotifyingHost, its first part: the new value is stored.
StoreValue ==
    \E k \in 1..Len(Fields) : \E v \in ParameterValues(Fields[k]) :
        /\ ~notify
        /\ notified < MaxNotifiedWrites
        /\ apvts[Fields[k]] # v
        /\ apvts' = [apvts EXCEPT ![Fields[k]] = v]
        /\ notify' = TRUE
        /\ notified' = notified + 1
        /\ UNCHANGED <<sampleRate, chains, thread, blocks, restores, paramWrites,
                       filtered, last, preemptions, prepares, fifoVars, cutVars,
                       sampleVars, serialVars, cutMoreVars, editorVars, pathVars,
                   layoutVars,
                   designVars,
                   reprepareVars>>

\* setValueNotifyingHost, its second part: parameterValueChanged is called
\* on the registered listeners (the ResponseCurveComponent, if there is one).
NotifyListeners ==
    /\ notify
    /\ notify' = FALSE
    /\ IF editorOpen
       THEN parametersChanged' = TRUE /\ signalled' = TRUE
       ELSE UNCHANGED <<parametersChanged, signalled>>
    /\ UNCHANGED <<notified, editorOpen, monoChain, timer, tick, responseCurve,
                   procVars, fifoVars, cutVars, sampleVars, serialVars,
                   cutMoreVars, pathVars,
                   layoutVars,
                   designVars,
                   reprepareVars>>

NextNotify ==
    \/ StoreValue
    \/ NotifyListeners
    \/ EditorConstruct
    \/ TimerCheck
    \/ TimerUpdate
    \/ SerialPrepareToPlay

SpecNotify == Init /\ [][NextNotify]_vars

\* The chain holds, in every stage, the coefficients and bypass flags that
\* updateChain derives from the settings (at some sample rate of the
\* processor).
FromParameters(mono, chainSettings) ==
    \E rate \in SampleRates \cup {0} :
        LET d == updateChain(mono, chainSettings, rate)
        IN  /\ \A pos \in CutPositions : \A i \in Stages :
                  /\ CoefOf(mono[pos][i]) = CoefOf(d[pos][i])
                  /\ mono[pos][i].byp = d[pos][i].byp
            /\ CoefOf(mono.Peak[0]) = CoefOf(d.Peak[0])

\* C24: whenever no listener call is outstanding and a timer tick has
\* tested the flag since the last one and has finished, the editor's
\* monoChain holds the settings derived from the current parameter values:
\* no interleaving of a write with a tick loses the change.
C24_ChangeReachesDisplayChain ==
    (editorOpen /\ ~notify /\ ~parametersChanged /\ timer = "idle")
        => FromParameters(monoChain, apvts)

\* Every notified write has been made and delivered, the last one set the
\* low cut slope to 1, and a tick has brought the display chain up to date.
C24_Witness ==
    /\ notified = MaxNotifiedWrites
    /\ ~notify
    /\ ~parametersChanged
    /\ timer = "idle"
    /\ tick.recomputed
    /\ apvts.lowCutSlope = 1
    /\ ~monoChain.LowCut[1].byp

\* ------------------------------------------------------------------------
\* SpecLayout: the host chooses a bus layout, processBlock runs on buffers
\* of that layout, and the channel fifos are prepared and updated with
\* such buffers
\* ------------------------------------------------------------------------

\* The host sets a layout that isBusesLayoutSupported accepts.
SetBusesLayout ==
    \E input \in ChannelSets, output \in ChannelSets :
        /\ isBusesLayoutSupported(input, output)
        /\ busLayout # [input |-> input, output |-> output]
        /\ busLayout' = [input |-> input, output |-> output]
        /\ UNCHANGED <<lastBlock, taps, procVars, fifoVars, cutVars, sampleVars,
                       serialVars, cutMoreVars, editorVars, pathVars, notifyVars,
                   designVars,
                   reprepareVars>>

\* The number of channels of the buffer the host hands to processBlock.
NumChannels ==
    IF SizeOf(busLayout.input) > SizeOf(busLayout.output)
    THEN SizeOf(busLayout.input) ELSE SizeOf(busLayout.output)

\* processBlock(buffer, midiMessages): the output channels beyond the inputs
\* are cleared, updateFilters runs, and leftChain and rightChain process
\* the single-channel blocks 0 and 1.  A channel index outside the buffer
\* is an access outside the buffer's channel array, and what is read there
\* is arbitrary.
LayoutProcessBlock ==
    \E garbage \in Signals :
        /\ sampleRate > 0
        /\ calls < MaxCalls
        /\ calls' = calls + 1
        /\ chains' = ApplyChainOps(chains, UpdateFiltersOps(apvts, sampleRate),
                                   Origin("block", calls + 1))
        /\ LET input == [c \in Chans |->
                           IF ChainChannel[c] < NumChannels THEN 1 ELSE garbage]
           IN  /\ history' = [c \in Chans |->
                                process(chains'[c], history[c], input[c]).history]
               /\ lastCall' = [kind |-> "block", n |-> calls + 1, before |-> history,
                               input |-> input,
                               output |-> [c \in Chans |->
                                   process(chains'[c], history[c], input[c]).out]]
        /\ lastBlock' =
              [numChannels |-> NumChannels,
               accessed    |-> (SizeOf(busLayout.input)..(SizeOf(busLayout.output) - 1))
                               \cup {ChainChannel[c] : c \in Chans}]
        /\ UNCHANGED <<busLayout, taps, channelFifos, apvts, sampleRate, thread,
                       blocks, restores, paramWrites, prepares, filtered, last,
                       preemptions, fifoVars, cutVars, sampleVars, cutMoreVars,
                       editorVars, pathVars, notifyVars,
                   designVars,
                   reprepareVars>>

\* prepare(bufferSize) on one of the channel fifos.
ChannelFifoPrepare ==
    \E c \in Chans, bufferSize \in 1..MaxBlockSize :
        /\ ~channelFifos[c].prepared
        /\ channelFifos' = [channelFifos EXCEPT ![c] = prepare(@, bufferSize)]
        /\ UNCHANGED <<history, calls, lastCall, layoutVars, procVars, fifoVars,
                       cutVars, sampleVars, cutMoreVars, editorVars, pathVars,
                       notifyVars,
                   designVars,
                   reprepareVars>>

\* update(buffer) on one of the channel fifos with a buffer of the layout
\* in force: the samples are read from channel channelToUse (arbitrary
\* values if the buffer has no such channel).
ChannelFifoUpdate ==
    \E c \in Chans, n \in 1..MaxUpdateSamples, garbage \in Garbage :
        /\ channelFifos[c].prepared
        /\ taps < MaxTaps
        /\ taps' = taps + 1
        /\ LET sample == IF channelToUse[c] < NumChannels
                         THEN Marker(channelToUse[c]) ELSE garbage
               st == update([s |-> channelFifos[c], fed |-> 0, log |-> <<>>],
                            [i \in 1..n |-> sample])
           IN  channelFifos' = [channelFifos EXCEPT ![c] = st.s]
        /\ UNCHANGED <<history, calls, lastCall, busLayout, lastBlock, procVars,
                       fifoVars, cutVars, sampleVars, cutMoreVars, editorVars,
                       pathVars, notifyVars,
                   designVars,
                   reprepareVars>>

NextLayout ==
    \/ SetBusesLayout
    \/ SerialPrepareToPlay
    \/ LayoutProcessBlock
    \/ ChannelFifoPrepare
    \/ ChannelFifoUpdate

SpecLayout == Init /\ [][NextLayout]_vars

\* The samples a SingleChannelSampleFifo holds: those in bufferToFill and
\* those in its queued blocks.
SamplesIn(sf) ==
    {sf.bufferToFill[i] : i \in 1..Len(sf.bufferToFill)}
    \cup UNION {{b[i] : i \in 1..Len(b)} : b \in
                  {Held(sf.audioBufferFifo)[k] :
                      k \in 1..getNumAvailableForReading(sf.audioBufferFifo)}}

\* C25: every sample leftChannelFifo holds that was read from a channel of
\* a buffer was read from the channel leftChain processes (channel 0), and
\* every such sample of rightChannelFifo from the channel rightChain
\* processes (channel 1).
C25_FifoTapsItsChainsChannel ==
    \A c \in Chans :
        SamplesIn(channelFifos[c]) \subseteq {0, Marker(ChainChannel[c])} \cup Garbage

\* C26: every channel index a processBlock call accessed is smaller than
\* the channel count of its buffer.
C26_ProcessBlockStaysInsideBuffer ==
    \A index \in lastBlock.accessed : index < lastBlock.numChannels

\* ------------------------------------------------------------------------
\* SpecDesign: updateLowCutFilters and updateHighCutFilters on a newly
\* constructed chain, for every pair of slopes
\* ------------------------------------------------------------------------

\* updateLowCutFilters(chainSettings) and updateHighCutFilters(chainSettings)
\* on one chain: each designs its coefficient array and hands it to
\* updateCutFilter with the slope of the same settings.  An updateFilter<i>
\* beyond the end of the array would read outside it; the chain is then
\* left as it was.
UpdateCutFilters ==
    \E chainSettings \in DesignSettings, rate \in SampleRates :
        LET low  == makeLowCutFilter(chainSettings, rate)
            high == makeHighCutFilter(chainSettings, rate)
        IN  /\ ~designed.made
            /\ designed' = [made |-> TRUE, settings |-> chainSettings,
                            low |-> low, high |-> high]
            /\ designChain' =
                 [designChain EXCEPT
                    !.LowCut =
                       IF IndicesRead(chainSettings.lowCutSlope) \subseteq DOMAIN low
                       THEN updateCutFilter(@, low, chainSettings.lowCutSlope)
                       ELSE @,
                    !.HighCut =
                       IF IndicesRead(chainSettings.highCutSlope) \subseteq DOMAIN high
                       THEN updateCutFilter(@, high, chainSettings.highCutSlope)
                       ELSE @]
            /\ UNCHANGED <<procVars, fifoVars, cutVars, sampleVars, serialVars,
                           cutMoreVars, editorVars, pathVars, notifyVars,
                           layoutVars,
                   reprepareVars>>

NextDesign == UpdateCutFilters

SpecDesign == Init /\ [][NextDesign]_vars

\* The array was designed with order 2 * (slope + 1), has slope + 1 sets,
\* and updateCutFilter with that slope reads the indices 0 .. slope, all
\* inside the array.
DesignFits(coefficients, slope) ==
    /\ DOMAIN coefficients = 0..slope
    /\ \A i \in DOMAIN coefficients : coefficients[i].order = 2 * (slope + 1)
    /\ IndicesRead(slope) = 0..slope
    /\ IndicesRead(slope) \subseteq DOMAIN coefficients

\* C27: for every slope, the low cut and the high cut design are requested
\* with order 2 * (slope + 1) and hold slope + 1 coefficient sets, and
\* updateCutFilter reads only the indices up to slope: no read is past the
\* end of the array.
C27_CutDesignCoversIndicesRead ==
    designed.made =>
        /\ DesignFits(designed.low, designed.settings.lowCutSlope)
        /\ DesignFits(designed.high, designed.settings.highCutSlope)

\* The steepest low cut with the gentlest high cut: four sets designed and
\* read for the one, one for the other, and installed in the chain.
C27_Witness ==
    /\ designed.made
    /\ designed.settings.lowCutSlope = 3
    /\ designed.settings.highCutSlope = 0
    /\ \A i \in Stages : ~designChain.LowCut[i].byp
    /\ designChain.LowCut[3].lo.v = designed.low[3]
    /\ designChain.HighCut[1].byp

\* ------------------------------------------------------------------------
\* SpecReprepare: a SingleChannelSampleFifo prepared, fed, drained and
\* prepared again, with block sizes from 0
\* ------------------------------------------------------------------------

\* prepare(bufferSize), whatever the fifo holds, with any size the host may
\* pass as samplesPerBlock.
PrepareCall ==
    \E bufferSize \in 0..MaxBlockSize :
        /\ prepareCalls < MaxPrepareCalls
        /\ prepareCalls' = prepareCalls + 1
        /\ sampleFifo' = prepare(sampleFifo, bufferSize)
        /\ UNCHANGED <<fed, pushLog, drained, fifoVars, cutVars, procVars,
                       serialVars, cutMoreVars, editorVars, pathVars, notifyVars,
                       layoutVars, designVars>>

\* update(buffer).  Once a sample has been stored outside bufferToFill the
\* behaviour of the program is undefined and is not followed further.
UpdateInBounds ==
    /\ sampleFifo.fifoIndex <= Len(sampleFifo.bufferToFill)
    /\ UpdateCall(MaxReprepareSamples)

NextReprepare ==
    \/ PrepareCall
    \/ UpdateInBounds
    \/ SampleGet

SpecReprepare == Init /\ [][NextReprepare]_vars

\* C28: after prepare(B), between samples the accumulator index is in
\* 0..B, so that the sample stored last went to an index in 0..B-1; for
\* every B from 0.
C28_FifoIndexWithinBlock ==
    sampleFifo.prepared =>
        /\ 0 <= sampleFifo.fifoIndex
        /\ sampleFifo.fifoIndex <= sampleFifo.size
        /\ Len(sampleFifo.bufferToFill) = sampleFifo.size

\* C29: every prepare call made on a fifo that was prepared before (with a
\* block size that is not 0) leaves the queue with no completed block
\* available.
C29_PrepareEmptiesQueue ==
    [][(prepareCalls' = prepareCalls + 1 /\ sampleFifo.prepared
           /\ sampleFifo.size > 0) =>
          getNumAvailableForReading(sampleFifo'.audioBufferFifo) = 0]_vars

\* ------------------------------------------------------------------------
\* SpecInstall: updateFilters on its own between prepareToPlay and
\* processBlock calls, with the filter history of the two chains
\* ------------------------------------------------------------------------

\* A variant of updateFilters that also resets the history of every filter.
updateFiltersResetting(ch, h, chainSettings, rate, src) ==
    [chains  |-> ApplyChainOps(ch, UpdateFiltersOps(chainSettings, rate), src),
     history |-> [c \in Chans |-> {}]]

\* updateFilters(): what it leaves in the chains and in their filter
\* history.  updateCoefficients assigns the coefficient values
\* (*old = *replacements) and setBypassed assigns a flag; neither touches
\* the state of an IIR::Filter.
updateFilters(ch, h, chainSettings, rate, src) ==
    [chains  |-> ApplyChainOps(ch, UpdateFiltersOps(chainSettings, rate), src),
     history |-> h]

\* updateFilters() called on a prepared processor.
UpdateFiltersCall ==
    /\ sampleRate > 0
    /\ calls < MaxCalls
    /\ calls' = calls + 1
    /\ LET r == updateFilters(chains, history, apvts, sampleRate,
                              Origin("update", calls + 1))
       IN  chains' = r.chains /\ history' = r.history
    /\ lastCall' = [NoCall EXCEPT !.kind = "update", !.n = calls + 1,
                                  !.before = history]
    /\ UNCHANGED <<channelFifos, apvts, sampleRate, thread, blocks, restores,
                   paramWrites, prepares, filtered, last, preemptions, fifoVars,
                   cutVars, sampleVars, cutMoreVars, editorVars, pathVars,
                   notifyVars, layoutVars, designVars, reprepareVars>>

NextInstall ==
    \/ SetParameter
    \/ SerialPrepareToPlay
    \/ SerialProcessBlock
    \/ UpdateFiltersCall

SpecInstall == Init /\ [][NextInstall]_vars

\* C30: an updateFilters call leaves the filter history of every stage of
\* leftChain and rightChain as it was; and when it installs the settings
\* the chains already hold, every block gives the output it would have
\* given without the call.
C30_InstallKeepsHistory ==
    [][(lastCall'.kind = "update" /\ calls' = calls + 1) =>
          /\ history' = history
          /\ SameSettings(chains', chains) =>
                \A c \in Chans : \A signal \in Signals :
                    process(chains'[c], history'[c], signal).out
                        = process(chains[c], history[c], signal).out]_vars

\* An updateFilters call has installed a changed low cut slope in chains
\* whose filters hold history from an earlier block.
C30_Witness ==
    /\ lastCall.kind = "update"
    /\ lastCall.before["left"] # {}
    /\ history["left"] # {}
    /\ apvts.lowCutSlope = 1
    /\ chains["left"].LowCut[1].lo.src.by = "update"
    /\ ~chains["left"].LowCut[1].byp

=============================================================================
